---- MODULE Spec2Model ----
(***************************************************************************)
(* A model of the geoips processing workflows ("procflows"):               *)
(*   single_source.py : plot_data, get_alg_xarray, verify_area_def and the *)
(*                      single_source orchestrator                         *)
(*   config_based.py  : the config_based orchestrator and its ledger of    *)
(*                      final products                                     *)
(* Plugins (readers, sectoring, algorithms, interpolators, renderers,      *)
(* coverage functions) are external: what they return is an input drawn    *)
(* from a small set.  A Python exception is modelled by the name of the    *)
(* exception type in an "err" field; "none" means the call returned.       *)
(***************************************************************************)
EXTENDS Integers, Sequences, FiniteSets, TLC

\* ------------------------------------------------------------------ bounds
\* coverage percentages range over the default minimum +/- CovgSpread
CovgSpread == 1
\* number of filename formats (files of one render)
MaxFormats == 2
\* number of datasets of a bundle besides METADATA
MaxDatasets == 2
\* data time spans, in hours, range over 0..MaxSpanHours
MaxSpanHours == 4

\* the number of filename formats of a direct call of the rendering functions
MaxCallFormats == 3

\* the number of filenames of a direct call of remove_duplicates
MaxDupFiles == 2

\* ------------------------------------------------------- program constants
\* single_source.py:1478, config_based.py:1459
DefaultMinimumCoverage == 10
\* single_source.py:1105 (time_range_hours=3)
TimeRangeHours == 3

NoneV == "None"

\* an absent optional number
NoValue == [has |-> FALSE, val |-> 0]

\* single_source.py:65-73
OUTPUT_FAMILIES_WITH_OUTFNAMES_ARG ==
  {"xrdict_varlist_outfnames_to_outlist", "xrdict_area_product_outfnames_to_outlist"}

OUTPUT_FAMILIES_WITH_NO_OUTFNAMES_ARG == {"xrdict_area_product_to_outlist"}

\* single_source.py:85-89
PRODUCT_FAMILIES_FOR_XARRAY_DICT_TO_OUTPUT_FORMAT ==
  {"sectored_xarray_dict_to_output_format",
   "unsectored_xarray_dict_to_output_format",
   "unsectored_xarray_dict_area_to_output_format"}

\* ------------------------------------------------------- python helpers
\* list(d.keys()) after d[k] = ... : a new key goes last, an old key keeps
\* its place
DictSet(keys, k) ==
  IF \E i \in 1..Len(keys) : keys[i] = k THEN keys ELSE Append(keys, k)

RECURSIVE DictSetAll(_, _)
DictSetAll(keys, ks) ==
  IF ks = <<>> THEN keys ELSE DictSetAll(DictSet(keys, Head(ks)), Tail(ks))

SeqToSet(s) == {s[i] : i \in 1..Len(s)}

Min2(a, b) == IF a < b THEN a ELSE b

\* ---------------------------------------------------- get_output_filenames
\* fmts: one record [ofn, mfn] per filename format: what get_filename and the
\* metadata filename plugin return for it (NoneV when there is none).
\* Returns the keys of the two dicts in insertion order.
RECURSIVE get_output_filenames_from(_, _, _, _)
get_output_filenames_from(fmts, i, out, md) ==
  IF i > Len(fmts) THEN [out |-> out, md |-> md]
  ELSE IF fmts[i].ofn = NoneV
       THEN get_output_filenames_from(fmts, i + 1, out, md)
       ELSE get_output_filenames_from(fmts, i + 1,
                                      DictSet(out, fmts[i].ofn),
                                      DictSet(md, fmts[i].mfn))

get_output_filenames(fmts) == get_output_filenames_from(fmts, 1, <<>>, <<>>)

\* ----------------------------------------------------- output_all_metadata
\* written[i]: the list the metadata writer returns for the i-th zipped pair.
\* Returns err, the keys of final_outputs, and the (metadata, product) pairs
\* the writer was called with.
RECURSIVE output_all_metadata_from(_, _, _, _, _, _)
output_all_metadata_from(out, md, written, i, final, calls) ==
  IF i > Min2(Len(md), Len(out))
  THEN [err |-> "none", files |-> final, calls |-> calls]
  ELSE IF md[i] = NoneV
       THEN output_all_metadata_from(out, md, written, i + 1, final, calls)
       ELSE IF written[i] # <<md[i]>>
            THEN [err |-> "ValueError_DidNotProduceExpectedProducts", files |-> <<>>,
                  calls |-> Append(calls, <<md[i], out[i]>>)]
            ELSE output_all_metadata_from(out, md, written, i + 1,
                                          DictSetAll(final, written[i]),
                                          Append(calls, <<md[i], out[i]>>))

output_all_metadata(out, md, written) ==
  output_all_metadata_from(out, md, written, 1, out, <<>>)

\* the writer returning exactly the metadata file it was asked for
FaithfulWriter(md) == [i \in 1..Len(md) |-> <<md[i]>>]

\* ---------------------------------------------------------------- plot_data
\* the comparison of the renderer's list with the predeclared filenames
RenderedAsExpected_as_sets(rendered, expected) ==
  SeqToSet(rendered) = SeqToSet(expected)

RenderedAsExpected(rendered, expected) == rendered = expected

PLOT_FAMILIES_CHECKED ==
  {"xarray_data", "image", "unprojected", "image_overlay",
   "xrdict_area_product_outfnames_to_outlist"}

\* family: the output plugin's family; fmts: see get_output_filenames;
\* rendered: the list the output plugin returns; written: see
\* output_all_metadata.  expected is the list handed to the plugin.
plot_data(family, no_output, fmts, rendered, written) ==
  LET names == IF no_output \/ family \in OUTPUT_FAMILIES_WITH_NO_OUTFNAMES_ARG
               THEN [out |-> <<>>, md |-> <<>>]
               ELSE get_output_filenames(fmts)
      meta == output_all_metadata(names.out, names.md, written)
      done == [err |-> meta.err, files |-> meta.files, expected |-> names.out,
               rendered |-> rendered]
      fail(e) == [err |-> e, files |-> <<>>, expected |-> names.out,
                  rendered |-> rendered]
  IN  IF family \in PLOT_FAMILIES_CHECKED
      THEN IF ~RenderedAsExpected(rendered, names.out)
           THEN fail("ValueError_DidNotProduceExpectedProducts")
           ELSE done
      ELSE IF family = "xrdict_area_product_to_outlist"
           THEN done
           ELSE fail("ValueError_UnsupportedOutputFamily")

\* ------------------------------------- process_xarray_dict_to_output_format
process_xarray_dict_to_output_format(product_type, family, fmts, rendered, written) ==
  LET names == get_output_filenames(fmts)
      meta == output_all_metadata(names.out, names.md, written)
  IN  IF product_type \notin PRODUCT_FAMILIES_FOR_XARRAY_DICT_TO_OUTPUT_FORMAT
      THEN [err |-> "TypeError_UnsupportedProductType", files |-> <<>>]
      ELSE IF family \in OUTPUT_FAMILIES_WITH_OUTFNAMES_ARG
           THEN IF rendered # names.out
                THEN [err |-> "ValueError_DidNotProduceExpectedProducts",
                      files |-> <<>>]
                ELSE [err |-> meta.err, files |-> meta.files]
           ELSE IF family = "xrdict_area_product_to_outlist"
                \* final_products is never assigned for this family
                THEN [err |-> "UnboundLocalError", files |-> <<>>]
                ELSE [err |-> "TypeError_UnsupportedOutputFormat", files |-> <<>>]

process_sectored_data_output(product_type, family, fmts, rendered, written) ==
  IF product_type = "sectored_xarray_dict_to_output_format"
  THEN process_xarray_dict_to_output_format(product_type, family, fmts,
                                            rendered, written)
  ELSE [err |-> "none", files |-> <<>>]

\* ---------------------------------------------------------- verify_area_def
\* filtered: the names filter_area_defs_actual_time keeps; times in hours.
\* new_area_defs is assigned only under the time-span test.
verify_area_def(filtered, check_name, data_start, data_end) ==
  IF data_end - data_start < TimeRangeHours
  THEN [err |-> "none", value |-> (check_name \in filtered)]
  ELSE [err |-> "UnboundLocalError", value |-> FALSE]

\* ----------------------------------------------------------- get_alg_xarray
\* A dataset bundle is a sequence (a dict in insertion order) of datasets
\* [key, vars]; a computed dataset is a record
\*   vars   : its variables
\*   interp : whether it is on the target area's grid (an interpolator's
\*            result)
\*   fef    : the keys of attrs["filename_extra_fields"]
\*   attrs  : "metadata" (the source's attributes), "product_name"
\*   alias  : the key of the bundle dataset this object is, or NoneV
\*   src    : for interpolated variables, the (variable, dataset key) pairs
\* `varname in key` on a str key is a substring test: the pairs of modelled
\* names for which it holds
SubstringOf(varname, key) == <<varname, key>> \in {<<"B1", "B1_DS">>}

EmptyDataset ==
  [vars |-> {}, interp |-> FALSE, fef |-> {}, attrs |-> {}, alias |-> NoneV,
   src |-> {}]

ALG_PRODUCT_TYPES ==
  {"alg", "alg_cmap", "interp_alg", "interp_alg_cmap", "alg_interp_cmap"}

ALG_FIRST_PRODUCT_TYPES == {"alg_cmap", "alg_interp_cmap", "alg"}

\* lines 800-809
AlgVariables(a) ==
  IF a.variable_names = <<>> THEN a.required ELSE a.variable_names

AlgFamilyOf_always(a) == a.alg_family

\* lines 817-831
AlgFamilyOf(a) ==
  IF a.product_type \in ALG_PRODUCT_TYPES THEN a.alg_family ELSE NoneV

\* lines 845-856: sector_xarrays is called only under resector
CurrSectXarrays(a) == IF a.resector THEN a.resect ELSE a.bundle

CurrOrigin(a) == IF a.resector THEN "resectored" ELSE "given"

BundleKeys(b) == [i \in 1..Len(b) |-> b[i].key]

AlgResult(e, ds, calls) == [err |-> e, ds |-> ds, calls |-> calls]

\* lines 866-875
AlgFirst_xarray_to_numpy(a) ==
  LET start == [EmptyDataset EXCEPT !.attrs = {"metadata"}]
      hits == SelectSeq(a.bundle,
                        LAMBDA d : SeqToSet(a.variable_names) \subseteq d.vars)
  IN  IF ~a.variable_names_given
      THEN AlgResult("TypeError", start, <<>>)
      ELSE AlgResult("none",
             IF hits = <<>> THEN start
             ELSE [start EXCEPT !.vars = {a.product_name}],
             [i \in 1..Len(hits) |->
                [origin |-> "given", arg |-> <<hits[i].key>>]])

\* lines 886-910: the loop runs over the keys of curr_sect_xarrays
RECURSIVE AlgFirst_x2x_loop(_, _, _, _)
AlgFirst_x2x_loop(variables, keys, k, input) ==
  IF k > Len(variables) * Len(keys)
  THEN [err |-> "none", input |-> input]
  ELSE LET varname == variables[((k - 1) \div Len(keys)) + 1]
           key == keys[((k - 1) % Len(keys)) + 1]
       IN  IF ~SubstringOf(varname, key)
           THEN AlgFirst_x2x_loop(variables, keys, k + 1, input)
           ELSE IF input = NoneV
                THEN AlgFirst_x2x_loop(variables, keys, k + 1, key)
                ELSE [err |-> IF varname \in SeqToSet(keys)
                              THEN "AttributeError" ELSE "KeyError",
                      input |-> input]

AlgFirst_xarray_to_xarray(a) ==
  LET start == [EmptyDataset EXCEPT !.attrs = {"metadata"}]
      keys == BundleKeys(CurrSectXarrays(a))
      loop == IF keys = <<>> THEN [err |-> "none", input |-> NoneV]
              ELSE AlgFirst_x2x_loop(AlgVariables(a), keys, 1, NoneV)
  IN  IF loop.err # "none" THEN AlgResult(loop.err, start, <<>>)
      ELSE IF loop.input = NoneV
           THEN AlgResult("ValueError_NoRequiredVariables", start, <<>>)
           ELSE AlgResult("none",
                          [EmptyDataset EXCEPT !.vars = {a.product_name}],
                          <<[origin |-> "key_string", arg |-> <<loop.input>>]>>)

\* lines 911-921: numpys and the dataset alg_xarray ends up naming
RECURSIVE AlgFirst_numpys(_, _, _, _, _)
AlgFirst_numpys(variables, curr, k, numpys, last) ==
  IF curr = <<>> \/ k > Len(variables) * Len(curr)
  THEN [numpys |-> numpys, last |-> last]
  ELSE LET varname == variables[((k - 1) \div Len(curr)) + 1]
           d == curr[((k - 1) % Len(curr)) + 1]
       IN  IF varname \in d.vars
           THEN AlgFirst_numpys(variables, curr, k + 1,
                                Append(numpys, <<varname, d.key>>), d.key)
           ELSE AlgFirst_numpys(variables, curr, k + 1, numpys, last)

DatasetNamed(b, key) == (CHOOSE i \in 1..Len(b) : b[i].key = key)

AlgFirst_list_numpy_to_numpy(a) ==
  LET start == [EmptyDataset EXCEPT !.attrs = {"metadata"}]
      curr == CurrSectXarrays(a)
      got == AlgFirst_numpys(AlgVariables(a), curr, 1, <<>>, NoneV)
      base == IF got.last = NoneV THEN start
              ELSE [EmptyDataset EXCEPT
                      !.vars = curr[DatasetNamed(curr, got.last)].vars,
                      !.attrs = {"metadata"},
                      !.alias = got.last]
  IN  AlgResult("none",
                [base EXCEPT !.vars = @ \cup {a.product_name}],
                <<[origin |-> CurrOrigin(a), arg |-> got.numpys]>>)

\* lines 863-921: the algorithm stage of the algorithm-first branch
AlgFirstStage(a) ==
  LET start == [EmptyDataset EXCEPT !.attrs = {"metadata"}]
      fam == AlgFamilyOf(a)
  IN  CASE fam = "xarray_to_numpy" -> AlgFirst_xarray_to_numpy(a)
        [] fam = "xarray_dict_area_def_to_numpy" ->
             AlgResult("none", [start EXCEPT !.vars = {a.product_name}],
                       <<[origin |-> "given", arg |-> BundleKeys(a.bundle)]>>)
        [] fam = "xarray_dict_to_xarray" ->
             AlgResult("none", [EmptyDataset EXCEPT !.vars = {a.product_name}],
                       <<[origin |-> "given", arg |-> BundleKeys(a.bundle)]>>)
        [] fam = "xarray_to_xarray" -> AlgFirst_xarray_to_xarray(a)
        [] fam = "list_numpy_to_numpy" -> AlgFirst_list_numpy_to_numpy(a)
        [] OTHER -> AlgResult("none", start, <<>>)

\* what get_alg_xarray hands back: the exception or the dataset, the
\* algorithm plugin calls, the interpolator calls as (variable, dataset key)
\* pairs, the number of sector_xarrays calls and the key of the bundle
\* dataset it wrote into (NoneV when none)
GetAlgResult(e, ds, calls, interps, a, mutated) ==
  [err |-> e, ds |-> ds, calls |-> calls, interps |-> interps,
   sector_calls |-> IF a.resector THEN 1 ELSE 0, mutated |-> mutated]

\* lines 923-937: final_xarray is assigned for alg_cmap and alg_interp_cmap
\* only, and the adjustment_id is stamped on alg_xarray
AlgFirstFinish(a, stage) ==
  LET alg == stage.ds
      interp_ok == a.has_interp /\ a.product_name \in alg.vars
      \* interp_plugin(area_def, alg_xarray, alg_xarray, varlist=[product_name]):
      \* the plugin fills the output dataset it is given, or builds its own
      interpolated == IF a.interp_in_place
                      THEN [alg EXCEPT !.interp = TRUE]
                      ELSE [EmptyDataset EXCEPT !.vars = {a.product_name},
                                                !.interp = TRUE,
                                                !.attrs = alg.attrs]
      \* alg_xarray after the interpolator ran
      alg_after == IF a.product_type = "alg_interp_cmap" /\ a.interp_in_place
                   THEN interpolated ELSE alg
      interps == IF a.product_type = "alg_interp_cmap"
                 THEN <<<<a.product_name, "alg_xarray">>>> ELSE <<>>
      stamped == [alg_after EXCEPT !.fef = @ \cup {"adjustment_id"}]
      final == IF a.adj THEN stamped
               ELSE IF a.product_type = "alg_interp_cmap" THEN interpolated
               ELSE alg
      \* alg_xarray[product_name] = ... wrote into the dataset it names
      mutated == alg.alias
  IN  IF a.product_type = "alg_interp_cmap" /\ ~a.has_interp
      THEN GetAlgResult("UnboundLocalError", alg, stage.calls, <<>>, a, alg.alias)
      ELSE IF a.product_type = "alg_interp_cmap" /\ ~interp_ok
      THEN GetAlgResult("KeyError", alg, stage.calls, interps, a, alg.alias)
      ELSE IF a.product_type = "alg" /\ ~a.adj
      THEN GetAlgResult("UnboundLocalError", alg, stage.calls, interps, a, alg.alias)
      ELSE GetAlgResult("none", final, stage.calls, interps, a, mutated)

\* lines 946-1035: one pass of the (variable, dataset) double loop.
\* st: [src: the (variable, key) each interpolated variable came from,
\*      interps: the interpolator calls, err]
InterpStep(a, variables, varname, d, st) ==
  LET have == {p[1] : p \in st.src}
      use == [src |-> {p \in st.src : p[1] # varname} \cup {<<varname, d.key>>},
              interps |-> Append(st.interps, <<varname, d.key>>),
              err |-> IF a.has_interp THEN "none" ELSE "UnboundLocalError"]
  IN  IF varname \notin d.vars THEN st
      ELSE IF varname \in a.pinned /\ ~a.resampled_read
           THEN IF <<varname, d.key>> \in a.pins THEN use ELSE st
           ELSE IF varname \in have
                THEN IF SeqToSet(variables) \subseteq d.vars THEN use ELSE st
                ELSE use

RECURSIVE InterpLoop(_, _, _, _, _)
InterpLoop(a, variables, curr, k, st) ==
  IF st.err # "none" \/ curr = <<>> \/ k > Len(variables) * Len(curr) THEN st
  ELSE InterpLoop(a, variables, curr, k + 1,
                  InterpStep(a, variables,
                             variables[((k - 1) \div Len(curr)) + 1],
                             curr[((k - 1) % Len(curr)) + 1], st))

\* lines 1043-1097
InterpFirst(a) ==
  LET variables == AlgVariables(a)
      curr == CurrSectXarrays(a)
      loop == InterpLoop(a, variables, curr, 1,
                         [src |-> {}, interps |-> <<>>, err |-> "none"])
      ix == [EmptyDataset EXCEPT !.vars = {p[1] : p \in loop.src},
                                 !.interp = TRUE,
                                 !.src = loop.src,
                                 !.attrs = {"metadata"}]
      fam == AlgFamilyOf(a)
      withp == [ix EXCEPT !.vars = @ \cup {a.product_name}]
      call == <<[origin |-> "interp",
                 arg |-> SelectSeq(variables, LAMBDA v : v \in ix.vars)]>>
      finish(ds, calls) ==
        GetAlgResult("none",
                     [ds EXCEPT !.attrs = @ \cup {"metadata", "product_name"},
                                !.fef = IF a.adj THEN @ \cup {"adjustment_id"} ELSE @],
                     calls, loop.interps, a, NoneV)
      fail(e) == GetAlgResult(e, ix, <<>>, loop.interps, a, NoneV)
  IN  IF loop.err # "none" THEN fail(loop.err)
      \* sect_xarray is the loop variable of the inner loop
      ELSE IF variables = <<>> \/ curr = <<>> THEN fail("UnboundLocalError")
      ELSE IF a.product_type = "interp" THEN finish(ix, <<>>)
      ELSE IF fam = "xarray_to_numpy" THEN finish(withp, call)
      ELSE IF fam = "xarray_to_xarray" THEN finish(withp, call)
      ELSE IF fam \in {"single_channel", "channel_combination",
                       "list_numpy_to_numpy", "rgb"}
           THEN IF SeqToSet(variables) \subseteq ix.vars
                THEN finish(withp, call) ELSE fail("KeyError")
      ELSE fail("TypeError_Unsupported")

\* a: [bundle, resect, adj, product_name, resector, resampled_read,
\*     variable_names_given, variable_names, required, pinned, pins,
\*     product_type, alg_family, has_interp, interp_in_place]
get_alg_xarray(a) ==
  IF a.product_type \in ALG_FIRST_PRODUCT_TYPES
  THEN LET stage == AlgFirstStage(a)
       IN  IF stage.err # "none"
           THEN GetAlgResult(stage.err, stage.ds, stage.calls, <<>>, a, NoneV)
           ELSE AlgFirstFinish(a, stage)
  ELSE InterpFirst(a)

\* ------------------------------------------------------- the coverage gate
\* single_source.py:1478-1485, config_based.py:1459-1466.  override: what
\* get_minimum_coverage returns; attr: the dataset's minimum_coverage
\* attribute; [has |-> FALSE] stands for None / no attribute.
EffectiveMinimumCoverage_attr_first(override, attr) ==
  IF attr.has THEN attr.val
  ELSE IF override.has THEN override.val
  ELSE DefaultMinimumCoverage

EffectiveMinimumCoverage(override, attr) ==
  IF override.has THEN override.val
  ELSE IF attr.has THEN attr.val
  ELSE DefaultMinimumCoverage

\* single_source.py:1492, config_based.py:1473
InsufficientCoverage_le(covg, fname_covg, minimum_coverage) ==
  covg <= minimum_coverage /\ fname_covg <= minimum_coverage

InsufficientCoverage(covg, fname_covg, minimum_coverage) ==
  covg < minimum_coverage /\ fname_covg < minimum_coverage

\* ------------------------------------------------------ the products ledger
\* final_products of config_based is a dict keyed by comparison path: here a
\* sequence of entries [cpath, files, database_writes,
\* compare_outputs_module] in insertion order.  A comparison path is the
\* sequence of the pieces of its text.
HasKey(fp, cpath) == \E i \in 1..Len(fp) : fp[i].cpath = cpath

KeyIndex(fp, cpath) == CHOOSE i \in 1..Len(fp) : fp[i].cpath = cpath

\* config_based.py:269-314.  output_compare_path: the output spec's
\* compare_path, command_line_compare_path: the command line's; each a
\* sequence of pieces among which "<product>", "<procflow>", "<output>",
\* <<>> when there is none.  compare_outputs_module: the output spec's, NoneV
\* when it has none.
set_comparison_path(output_compare_path, compare_outputs_module, product_name, output_type, command_line_compare_path) ==
  LET compare_path == IF command_line_compare_path # <<>>
                      THEN command_line_compare_path ELSE output_compare_path
  IN  IF compare_path # <<>>
      THEN [cpath |-> [i \in 1..Len(compare_path) |->
                         IF compare_path[i] = "<product>" THEN product_name
                         ELSE IF compare_path[i] = "<procflow>" THEN "config_based"
                         ELSE IF compare_path[i] = "<output>" THEN output_type
                         ELSE compare_path[i]],
            cmodule |-> IF compare_outputs_module = NoneV
                        THEN "compare_outputs" ELSE compare_outputs_module]
      ELSE [cpath |-> <<"no_comparison">>,
            cmodule |-> "no_compare_outputs_module"]

\* config_based.py:317-342
initialize_final_products_always(fp, cpath, cmodule) ==
  LET fresh == [cpath |-> cpath, files |-> <<>>, database_writes |-> <<>>,
                compare_outputs_module |-> cmodule]
  IN  IF HasKey(fp, cpath)
      THEN [fp EXCEPT ![KeyIndex(fp, cpath)] = fresh]
      ELSE Append(fp, fresh)

initialize_final_products(fp, cpath, cmodule) ==
  IF HasKey(fp, cpath) THEN fp
  ELSE Append(fp, [cpath |-> cpath, files |-> <<>>, database_writes |-> <<>>,
                   compare_outputs_module |-> cmodule])

\* initialize_final_products followed by
\* final_products[cpath]["compare_outputs_module"] = cmodule
\* (config_based.py:468-471, 1229-1232, 1360-1363)
LedgerUse(fp, c) ==
  LET fp1 == initialize_final_products(fp, c.cpath, c.cmodule)
  IN  [fp1 EXCEPT ![KeyIndex(fp1, c.cpath)].compare_outputs_module = c.cmodule]

\* final_products[cpath]["files"] += files
LedgerAdd(fp, cpath, files) ==
  [fp EXCEPT ![KeyIndex(fp, cpath)].files = @ \o files]

\* config_based.py:345-398.  writer_kwargs is the dict of the keyword
\* arguments of the call; `writer_kwargs.get_plugin("area_def")` raises
\* AttributeError, a dict having no get_plugin, before the database writer
\* is called
write_to_database(final_product) ==
  [err |-> "AttributeError", product_added |-> NoneV]

\* `if product_db: for fprod in files: product_added = write_to_database(...);
\* final_products[cpath]["database writes"] += [product_added]`
\* (config_based.py:482-493, 1377-1389, 1510-1521): the ledger after the
\* loop, or as the exception leaves it
WriteAllToDatabase(product_db, fp, cpath, files) ==
  LET RECURSIVE Loop(_, _)
      Loop(i, ledger) ==
        IF i > Len(files) THEN [err |-> "none", fp |-> ledger]
        ELSE LET r == write_to_database(files[i])
             IN  IF r.err # "none" THEN [err |-> r.err, fp |-> ledger]
                 ELSE Loop(i + 1,
                           [ledger EXCEPT
                              ![KeyIndex(ledger, cpath)].database_writes =
                                 Append(@, r.product_added)])
  IN  IF product_db THEN Loop(1, fp) ELSE [err |-> "none", fp |-> fp]

\* the filenames of one render carry the area, sector type, output type and
\* product they were made for
TagFiles(names, it) ==
  [i \in 1..Len(names) |->
     [name |-> names[i], area |-> it.area, sector_type |-> it.sector_type,
      output_type |-> it.output_type, product |-> it.product]]

\* ------------------------------------------------------------------ state
VARIABLES
  procflow,          \* "single_source", "config_based", or "none"
  cfg,               \* the choices the configuration of the run is built from
  pc,                \* position of the orchestrator
  err,               \* the exception that ended the run, "none" otherwise
  area_idx, st_idx, out_idx, prod_idx, uns_idx,   \* loop positions
  final_products,    \* the ledger (config_based) / the file list (single_source)
  area_def,          \* the area definition of the current iteration
  pad_sect_xarrays,  \* the padded sectoring of the current iteration
  sect_xarrays,      \* the exact sectoring of the current iteration
  pad_alg_xarrays,   \* memo: product -> dataset (padded)
  alg_xarrays,       \* memo: product -> dataset (exact)
  alg_calls,         \* product -> get_alg_xarray calls in this iteration
  last,              \* what the last step did
  retval,            \* the return code
  new_attrs,         \* single_source: the attributes put on every alg_xarray
  call               \* the last direct call of a function: [fn, in, out]

flow_vars ==
  <<procflow, cfg, pc, err, area_idx, st_idx, out_idx, prod_idx, uns_idx,
    final_products, area_def, pad_sect_xarrays, sect_xarrays, pad_alg_xarrays,
    alg_xarrays, alg_calls, last, retval, new_attrs>>

vars == <<flow_vars, call>>

\* ---------------------------------------------------- inputs of the functions
VariableNames == {"B1", "B2"}

DatasetKeys == <<"DS1", "B1_DS", "DS3">>

MetadataDataset == [key |-> "METADATA", vars |-> {}]

\* the bundles METADATA, d1, ..., dn with n <= MaxDatasets
Bundles ==
  UNION {{<<MetadataDataset>> \o [i \in 1..n |-> [key |-> DatasetKeys[i], vars |-> f[i]]] :
            f \in [1..n -> SUBSET VariableNames \ {{}}]} : n \in 0..Min2(MaxDatasets, Len(DatasetKeys))}

\* what sector_xarrays can give back for a bundle: nothing or all of it
Resectored(b) == {<<>>, b}

AlgFamilies ==
  {"xarray_to_numpy", "xarray_dict_area_def_to_numpy", "xarray_dict_to_xarray",
   "xarray_to_xarray", "list_numpy_to_numpy", "single_channel", "rgb",
   "xarray_dict_dict_to_xarray"}

ProductTypes ==
  {"alg", "alg_cmap", "alg_interp_cmap", "interp_alg", "interp_alg_cmap",
   "interp", "sectored_xarray_dict_to_output_format"}

NoCall == [fn |-> "none"]

\* ------------------------------------------------- direct calls of functions
\* the adjustment, the pinned datasets and the resampled read of a call
AlgCallOptions ==
  {[adj |-> FALSE, pins |-> {}, resampled_read |-> FALSE],
   [adj |-> TRUE, pins |-> {}, resampled_read |-> FALSE],
   [adj |-> FALSE, pins |-> {<<"B1", "DS1">>}, resampled_read |-> FALSE],
   [adj |-> FALSE, pins |-> {<<"B1", "B1_DS">>}, resampled_read |-> FALSE],
   [adj |-> FALSE, pins |-> {<<"B1", "DS1">>}, resampled_read |-> TRUE],
   [adj |-> FALSE, pins |-> {<<"B1", "DS1">>, <<"B1", "B1_DS">>},
    resampled_read |-> FALSE]}

Call_get_alg_xarray ==
  /\ call = NoCall
  /\ \E b \in Bundles, rs \in BOOLEAN, o \in AlgCallOptions,
        g \in BOOLEAN, req \in {<<"B1">>, <<"B1", "B2">>},
        pt \in ProductTypes, fam \in AlgFamilies,
        ip \in {"none", "in_place", "new"} :
       \E r \in (IF rs THEN Resectored(b) ELSE {b}) :
         LET a == [bundle |-> b, resect |-> r, adj |-> o.adj, product_name |-> "P",
                   resector |-> rs, resampled_read |-> o.resampled_read,
                   variable_names_given |-> g,
                   variable_names |-> IF g THEN req ELSE <<>>,
                   required |-> req,
                   pinned |-> {p[1] : p \in o.pins}, pins |-> o.pins,
                   product_type |-> pt, alg_family |-> fam,
                   has_interp |-> (ip # "none"),
                   interp_in_place |-> (ip = "in_place")]
         IN  call' = [fn |-> "get_alg_xarray", in |-> a, out |-> get_alg_xarray(a)]
  /\ UNCHANGED flow_vars

Call_verify_area_def ==
  /\ call = NoCall
  /\ \E filtered \in SUBSET {"a1", "a2"}, name \in {"a1", "a2"},
        start \in 0..1, span \in 0..MaxSpanHours :
       call' = [fn |-> "verify_area_def",
                in |-> [filtered |-> filtered, check_name |-> name,
                        data_start |-> start, data_end |-> start + span],
                out |-> verify_area_def(filtered, name, start, start + span)]
  /\ UNCHANGED flow_vars

\* -------------------------------- update_output_dict_from_command_line_args
\* A python dict is a function on its keys.  d[k] = v
DictPut(d, k, v) ==
  [x \in DOMAIN d \cup {k} |-> IF x = k THEN v ELSE d[x]]

\* for k in e: d[k] = e[k]   (config_based.py:117-120)
DictMerge_replace(d, e) == e

DictMerge(d, e) ==
  [x \in DOMAIN d \cup DOMAIN e |-> IF x \in DOMAIN e THEN e[x] ELSE d[x]]

\* config_based.py:62-65
CmdlineFldNames ==
  <<"filename_format_kwargs", "metadata_filename_format_kwargs">>

\* config_based.py:77-85
OutputFldName(cmdline_fld_name) ==
  IF cmdline_fld_name = "filename_format_kwargs"
  THEN "filename_formats_kwargs"
  ELSE IF cmdline_fld_name = "metadata_filename_format_kwargs"
  THEN "metadata_filename_formats_kwargs"
  ELSE cmdline_fld_name

\* config_based.py:61-127: the loop from the k-th command-line field on.
\* final_output_dict is a shallow copy, so an assignment into one of its
\* fields' dicts is an assignment into the same dict of output_dict.
RECURSIVE update_output_dict_loop(_, _, _, _)
update_output_dict_loop(output_dict, args, k, final_output_dict) ==
  IF k > Len(CmdlineFldNames)
  THEN [final_output_dict |-> final_output_dict, output_dict |-> output_dict]
  ELSE
    LET cmdline_fld_name == CmdlineFldNames[k]
    IN  IF cmdline_fld_name \notin DOMAIN args \/ ~args[cmdline_fld_name].has
        THEN update_output_dict_loop(output_dict, args, k + 1, final_output_dict)
        ELSE
          LET output_fld_name == OutputFldName(cmdline_fld_name)
              output_fld_val == [all |-> args[cmdline_fld_name].val]
          IN  IF output_fld_name \notin DOMAIN output_dict
              THEN update_output_dict_loop(output_dict, args, k + 1,
                     DictPut(final_output_dict, output_fld_name, output_fld_val))
              ELSE IF "all" \in DOMAIN output_fld_val
                      /\ "all" \notin DOMAIN output_dict[output_fld_name]
              THEN LET fld == DictPut(final_output_dict[output_fld_name],
                                      "all", output_fld_val["all"])
                   IN  update_output_dict_loop(
                         [output_dict EXCEPT ![output_fld_name] = fld], args,
                         k + 1,
                         [final_output_dict EXCEPT ![output_fld_name] = fld])
              ELSE IF "all" \in DOMAIN output_fld_val
              THEN LET fld == [final_output_dict[output_fld_name] EXCEPT
                                 !["all"] = DictMerge(@, output_fld_val["all"])]
                   IN  update_output_dict_loop(
                         [output_dict EXCEPT ![output_fld_name] = fld], args,
                         k + 1,
                         [final_output_dict EXCEPT ![output_fld_name] = fld])
              ELSE update_output_dict_loop(output_dict, args, k + 1,
                     DictPut(final_output_dict, cmdline_fld_name, output_fld_val))

\* config_based.py:53-129.  command_line_args: [has |-> FALSE] for None,
\* otherwise val is the dict of the arguments, each [has |-> FALSE] for None
\* or the dict given.  The result and the output_dict the caller is left with.
update_output_dict_from_command_line_args(output_dict, command_line_args) ==
  IF ~command_line_args.has
  THEN [final_output_dict |-> output_dict, output_dict |-> output_dict]
  ELSE update_output_dict_loop(output_dict, command_line_args.val, 1, output_dict)

\* the empty dict
EmptyDict == [x \in {} |-> "v1"]

\* the filename-format keyword dicts of an output spec, of a command line
SpecKwargs == {EmptyDict, [k1 |-> "v1"], [k1 |-> "v1", k2 |-> "v1"]}

CmdlineKwargs ==
  {EmptyDict, [k1 |-> "v2"], [k2 |-> "v2"], [k1 |-> "v2", k2 |-> "v2"]}

\* the values a kwargs field of an output spec may have: sub-key "all"
\* and/or the sub-key of one filename format
SpecFldValues ==
  {[x \in {} |-> EmptyDict], [png |-> [k1 |-> "v1"]]}
  \cup {[all |-> a] : a \in SpecKwargs}
  \cup {[all |-> a, png |-> [k1 |-> "v1"]] : a \in SpecKwargs}

\* output specs: a field that is no kwargs field, and each kwargs field
\* absent or present
OutputDicts ==
  {DictPut(d, "output_format", [name |-> EmptyDict]) :
     d \in UNION {[flds -> SpecFldValues] :
                    flds \in SUBSET {"filename_formats_kwargs",
                                     "metadata_filename_formats_kwargs"}}}

CommandLineArgs ==
  {[has |-> FALSE]}
  \cup {[has |-> TRUE, val |-> v] :
          v \in UNION {[flds -> {[has |-> FALSE]}
                                  \cup {[has |-> TRUE, val |-> c] :
                                          c \in CmdlineKwargs}] :
                         flds \in SUBSET {"filename_format_kwargs",
                                          "metadata_filename_format_kwargs"}}}

Call_update_output_dict_from_command_line_args ==
  /\ call = NoCall
  /\ \E output_dict \in OutputDicts, command_line_args \in CommandLineArgs :
       call' = [fn |-> "update_output_dict_from_command_line_args",
                in |-> [output_dict |-> output_dict,
                        command_line_args |-> command_line_args],
                out |-> update_output_dict_from_command_line_args(
                          output_dict, command_line_args)]
  /\ UNCHANGED flow_vars

\* ------------------------------------------------------ output file list
\* The path of a produced file is the output root followed by the area, the
\* output type, the product and the name of the file; the text of the file
\* list is a sequence of paths and newlines.
GEOIPS_OUTDIRS == "/outdirs"

OutputPath(f) == <<GEOIPS_OUTDIRS, f.area, f.output_type, f.product, f.name>>

\* fname.replace(gpaths["GEOIPS_OUTDIRS"], "$GEOIPS_OUTDIRS")
ReplaceOutdirs(path) ==
  [i \in DOMAIN path |->
     IF path[i] = GEOIPS_OUTDIRS THEN "$GEOIPS_OUTDIRS" ELSE path[i]]

Newline == [nl |-> TRUE, path |-> <<>>]

\* "\n".join(...)
RECURSIVE JoinLines(_)
JoinLines(paths) ==
  IF paths = <<>> THEN <<>>
  ELSE IF Len(paths) = 1 THEN <<[nl |-> FALSE, path |-> paths[1]]>>
  ELSE <<[nl |-> FALSE, path |-> paths[1]], Newline>> \o JoinLines(Tail(paths))

\* one write of the file list: the joined names, then the last newline
\* (single_source.py:1561-1572, config_based.py:1589-1601)
WriteNames(files) ==
  JoinLines([i \in 1..Len(files) |-> ReplaceOutdirs(OutputPath(files[i]))])
    \o <<Newline>>

\* config_based.py:1578-1606: one write per ledger key that has files
RECURSIVE CB_FileListText(_)
CB_FileListText(fp) ==
  IF fp = <<>> THEN <<>>
  ELSE (IF Len(fp[1].files) > 0 THEN WriteNames(fp[1].files) ELSE <<>>)
         \o CB_FileListText(Tail(fp))

\* the record of a step: where it acted (area, sector_type, output_type,
\* product), how it ended (outcome), the data it saw (data: the padded
\* bundle, required: the product's variables), the coverage gate it
\* evaluated (gate, covg, fname_covg, override, attr, minimum_coverage), the
\* render it made (plotted, family, expected, rendered) and what it appended
\* to the final products (cpath, files), the calls the final step made to
\* comparison modules (compared), the plugins and utilities the step called
\* (did), the coverage error one of them raised (raised), the bundle the
\* step handed to get_alg_xarray (alg_bundle), and whether an output file
\* list was asked for, whether it was written and what was written to it
\* (file_list), and the filename_extra_fields of the dataset the step
\* rendered (in config_based the names of the fields, fef)
LastNone ==
  [step |-> "none", area |-> NoneV, sector_type |-> NoneV, output_type |-> NoneV,
   product |-> NoneV, outcome |-> NoneV, data |-> <<>>, required |-> <<>>,
   gate |-> FALSE, covg |-> 0, fname_covg |-> 0, override |-> NoValue,
   attr |-> NoValue, minimum_coverage |-> 0,
   plotted |-> FALSE, family |-> NoneV, expected |-> <<>>, rendered |-> <<>>,
   cpath |-> <<>>, files |-> <<>>, compared |-> <<>>,
   did |-> {}, raised |-> "none", alg_bundle |-> <<>>,
   file_list |-> [given |-> FALSE, written |-> FALSE, text |-> <<>>],
   filename_extra_fields |-> [adjustment_id |-> NoneV], fef |-> {}]

\* single_source.py:1259: new_attrs = {"filename_extra_fields": {}}; the
\* dict of the extra fields is the record of its adjustment_id, NoneV when
\* it has none
NoAttrs == [filename_extra_fields |-> [adjustment_id |-> NoneV]]

\* the adjustment_id the adjuster gives the area definition of an area: one
\* value per area, written as the name of the area
AdjustmentIdOf(area) == area

\* the orchestrator at rest
IdleFlow ==
  /\ procflow = "none"
  /\ cfg = [none |-> TRUE]
  /\ pc = "idle"
  /\ err = "none"
  /\ area_idx = 0 /\ st_idx = 0 /\ out_idx = 0 /\ prod_idx = 0 /\ uns_idx = 0
  /\ final_products = <<>>
  /\ area_def = [none |-> TRUE]
  /\ pad_sect_xarrays = <<>>
  /\ sect_xarrays = <<>>
  /\ pad_alg_xarrays = <<>>
  /\ alg_xarrays = <<>>
  /\ alg_calls = <<>>
  /\ last = LastNone
  /\ retval = NoneV
  /\ new_attrs = NoAttrs

\* --------------------------------------------- configuration of a run
FileNames == <<"f1", "f2", "f3", "f4">>

MetadataFileNames == <<"m1", "m2", "m3", "m4">>

\* n filename formats: format i names the product file f_i; the first one
\* also has a metadata file
Formats(n) ==
  [i \in 1..n |-> [ofn |-> FileNames[i],
                   mfn |-> IF i = 1 THEN MetadataFileNames[i] ELSE NoneV]]

\* the formats of an output for which get_filename returns None: no filename
\* is made (single_source.py:172-174)
UnnamedFormats(n) == [i \in 1..n |-> [ofn |-> NoneV, mfn |-> NoneV]]

CovgValues ==
  (DefaultMinimumCoverage - CovgSpread)..(DefaultMinimumCoverage + CovgSpread)

\* the output-format plugin families
OutputFamilies ==
  {"image", "unprojected", "image_overlay", "xarray_data",
   "xrdict_area_product_outfnames_to_outlist", "xrdict_area_product_to_outlist",
   "xrdict_varlist_outfnames_to_outlist"}

\* what the reader returns: variables listed are those holding valid data
FullData == <<MetadataDataset, [key |-> "DS1", vars |-> {"B1", "B2"}]>>

PartialData == <<MetadataDataset, [key |-> "DS1", vars |-> {"B1"}]>>

\* what sector_xarrays can return for the reader's data
SectorChoices == {<<>>, FullData, PartialData}

\* what the renderer can return when handed the list expected
RenderChoices(expected) ==
  {expected, <<>>,
   [i \in 1..Len(expected) |-> expected[Len(expected) + 1 - i]],
   IF expected = <<>> THEN <<FileNames[1]>> ELSE Tail(expected)}

\* what the metadata writer can return
WriterChoices(md) == {FaithfulWriter(md), [i \in 1..Len(md) |-> <<>>]}

\* ------------------------- direct calls of the rendering functions
\* the filename formats of a call: format i may or may not yield the
\* product filename f_i, and may or may not have the metadata filename m_i
CallFormats ==
  UNION {{[i \in 1..n |->
             [ofn |-> IF c[i][1] THEN FileNames[i] ELSE NoneV,
              mfn |-> IF c[i][2] THEN MetadataFileNames[i] ELSE NoneV]] :
            c \in [1..n -> BOOLEAN \X BOOLEAN]} : n \in 0..MaxCallFormats}

\* what an output plugin can return when handed the list expected
CallRenderChoices(expected) ==
  RenderChoices(expected) \cup {<<FileNames[1]>>, <<FileNames[1], FileNames[2]>>}

Call_output_all_metadata ==
  /\ call = NoCall
  /\ \E fmts \in CallFormats, faithful \in BOOLEAN :
       LET names == get_output_filenames(fmts)
           written == IF faithful THEN FaithfulWriter(names.md)
                      ELSE [i \in 1..Len(names.md) |-> <<>>]
       IN  call' = [fn |-> "output_all_metadata",
                    in |-> [fmts |-> fmts, output_fnames |-> names.out,
                            metadata_fnames |-> names.md, written |-> written],
                    out |-> output_all_metadata(names.out, names.md, written)]
  /\ UNCHANGED flow_vars

Call_plot_data ==
  /\ call = NoCall
  /\ \E family \in OutputFamilies, n \in 1..MaxFormats, no_output \in BOOLEAN :
       LET fmts == Formats(n)
           expected ==
             IF no_output \/ family \in OUTPUT_FAMILIES_WITH_NO_OUTFNAMES_ARG
             THEN <<>> ELSE get_output_filenames(fmts).out
       IN  \E rendered \in CallRenderChoices(expected) :
             call' = [fn |-> "plot_data",
                      in |-> [family |-> family, fmts |-> fmts,
                              no_output |-> no_output, rendered |-> rendered],
                      out |-> plot_data(family, no_output, fmts, rendered,
                                FaithfulWriter(
                                  IF expected = <<>> THEN <<>>
                                  ELSE get_output_filenames(fmts).md))]
  /\ UNCHANGED flow_vars

Call_process_xarray_dict_to_output_format ==
  /\ call = NoCall
  /\ \E product_type \in PRODUCT_FAMILIES_FOR_XARRAY_DICT_TO_OUTPUT_FORMAT
                           \cup {"alg"},
        family \in OutputFamilies, n \in 1..MaxFormats :
       LET fmts == Formats(n)
           names == get_output_filenames(fmts)
       IN  \E rendered \in CallRenderChoices(names.out) :
             call' = [fn |-> "process_xarray_dict_to_output_format",
                      in |-> [product_type |-> product_type, family |-> family,
                              fmts |-> fmts, rendered |-> rendered],
                      out |-> process_xarray_dict_to_output_format(
                                product_type, family, fmts, rendered,
                                FaithfulWriter(names.md))]
  /\ UNCHANGED flow_vars

\* ------------------------------------------------------ pad_area_definition
\* A scale factor is the fraction num/den; int(size * factor) of a
\* non-negative product is the integer quotient.
ScaledSize(size, factor) == (size * factor.num) \div factor.den

\* single_source.py:369: is_sector_type(adef, "tc") or force_pad
PadsArea_always(adef, force_pad) == TRUE

PadsArea(adef, force_pad) == adef.sector_type = "tc" \/ force_pad

\* single_source.py:374-379: num_lines and num_samples
PaddedShape_scaled(adef, source_name, x_scale_factor, y_scale_factor) ==
  [num_lines |-> ScaledSize(adef.y_size, y_scale_factor),
   num_samples |-> ScaledSize(adef.x_size, x_scale_factor)]

PaddedShape(adef, source_name, x_scale_factor, y_scale_factor) ==
  IF source_name # NoneV /\ source_name \in {"amsu-b", "mhs"}
  THEN [num_lines |-> adef.y_size * 1, num_samples |-> adef.x_size * 5]
  ELSE [num_lines |-> ScaledSize(adef.y_size, y_scale_factor),
        num_samples |-> ScaledSize(adef.x_size, x_scale_factor)]

\* single_source.py:385-390: the centre of the padded area
PaddedCentre(adef) ==
  IF adef.sector_type = "tc"
  THEN [clat |-> adef.sector_info.clat, clon |-> adef.sector_info.clon]
  ELSE [clat |-> adef.proj_dict.lat_0, clon |-> adef.proj_dict.lon_0]

\* single_source.py:361-411.  The result is the area definition returned,
\* whether it is the very object passed in (is_input), and, for a built
\* area, the keyword arguments clat_clon_resolution_shape was called with
\* (generator_kwargs); copy_sector_info copies sector_info and sector_type.
pad_area_definition(adef, source_name, force_pad, x_scale_factor, y_scale_factor) ==
  IF PadsArea(adef, force_pad)
  THEN LET shape == PaddedShape(adef, source_name, x_scale_factor,
                                y_scale_factor)
           centre == PaddedCentre(adef)
           kwargs == [area_id |-> adef.area_id,
                      long_description |-> adef.description,
                      clat |-> centre.clat, clon |-> centre.clon,
                      projection |-> "eqc",
                      num_lines |-> shape.num_lines,
                      num_samples |-> shape.num_samples,
                      pixel_width |-> adef.pixel_size_x,
                      pixel_height |-> adef.pixel_size_y]
       IN  [is_input |-> FALSE, generator_kwargs |-> <<kwargs>>,
            area_def |->
              [area_id |-> kwargs.area_id, description |-> kwargs.long_description,
               sector_type |-> adef.sector_type,
               x_size |-> kwargs.num_samples, y_size |-> kwargs.num_lines,
               pixel_size_x |-> kwargs.pixel_width,
               pixel_size_y |-> kwargs.pixel_height,
               sector_info |-> adef.sector_info,
               proj_dict |-> [lat_0 |-> kwargs.clat, lon_0 |-> kwargs.clon]]]
  ELSE [is_input |-> TRUE, generator_kwargs |-> <<>>, area_def |-> adef]

\* the area definitions, source names and scale factors of the direct calls
PadAreaDefs ==
  {[area_id |-> "a1", description |-> "area one", sector_type |-> k,
    x_size |-> x, y_size |-> 2, pixel_size_x |-> 1, pixel_size_y |-> 2,
    sector_info |-> [clat |-> 10, clon |-> 20],
    proj_dict |-> [lat_0 |-> 30, lon_0 |-> 40]] :
     k \in {"tc", "static", "reader_defined"}, x \in {1, 3}}

PadSourceNames == {NoneV, "abi", "amsu-b", "mhs"}

PadScaleFactors ==
  {[num |-> 1, den |-> 1], [num |-> 3, den |-> 2], [num |-> 5, den |-> 2]}

Call_pad_area_definition ==
  /\ call = NoCall
  /\ \E area \in PadAreaDefs, source_name \in PadSourceNames,
        force_pad \in BOOLEAN, xf \in PadScaleFactors, yf \in PadScaleFactors :
       call' = [fn |-> "pad_area_definition",
                in |-> [area_def |-> area, source_name |-> source_name,
                        force_pad |-> force_pad, x_scale_factor |-> xf,
                        y_scale_factor |-> yf],
                out |-> pad_area_definition(area, source_name, force_pad, xf, yf)]
  /\ UNCHANGED flow_vars

\* -------------------------------------------------------- remove_duplicates
\* the filename formats whose module defines <format>_remove_duplicates
\* (duplicate_files.py:53-56)
FormatsWithRemover == {"tc_fname"}

\* duplicate_files.py:25-71.  fnames: the dict of the filenames, in its
\* order, each with its filename_format; results[i]: what the remover of the
\* format returns for the i-th filename.  calls: the filenames a remover was
\* invoked with.
remove_duplicates(fnames, results) ==
  LET RECURSIVE Loop(_, _, _, _)
      Loop(i, removed_files, saved_files, calls) ==
        IF i > Len(fnames)
        THEN [removed_files |-> removed_files, saved_files |-> saved_files,
              calls |-> calls, err |-> "none"]
        ELSE IF fnames[i].filename_format \in FormatsWithRemover
             THEN Loop(i + 1, removed_files \o results[i].removed,
                       saved_files \o results[i].saved,
                       Append(calls, fnames[i].fname))
             ELSE Loop(i + 1, removed_files, saved_files, calls)
  IN  Loop(1, <<>>, <<>>, <<>>)

\* the direct calls: up to MaxDupFiles distinct filenames, each of a format
\* with or without a remover; a remover keeps the file, removes an older
\* duplicate of it, or removes the file and keeps the older one
Call_remove_duplicates ==
  /\ call = NoCall
  /\ \E n \in 0..MaxDupFiles :
       \E names \in [1..n -> {FileNames[k] : k \in 1..(MaxDupFiles + 1)}],
          fmts \in [1..n -> {"tc_fname", "geoips_fname"}],
          kinds \in [1..n -> {"keep", "remove_old", "remove_new"}] :
         /\ \A i, j \in 1..n : names[i] = names[j] => i = j
         /\ LET fnames == [i \in 1..n |->
                             [fname |-> names[i], filename_format |-> fmts[i]]]
                results ==
                  [i \in 1..n |->
                     CASE kinds[i] = "keep" ->
                            [removed |-> <<>>, saved |-> <<names[i]>>]
                       [] kinds[i] = "remove_old" ->
                            [removed |-> <<"old">>, saved |-> <<names[i]>>]
                       [] kinds[i] = "remove_new" ->
                            [removed |-> <<names[i]>>, saved |-> <<"old">>]]
            IN  call' = [fn |-> "remove_duplicates",
                         in |-> [fnames |-> fnames, results |-> results],
                         out |-> remove_duplicates(fnames, results)]
  /\ UNCHANGED flow_vars

\* ---------------------------------------------- plugin keyword arguments
\* single_source.py:205-215.  declared: the parameter names of the plugin's
\* signature; requested_kwargs: the keys of the mapping.  The keys of the
\* difference are popped.
remove_unsupported_kwargs(declared, requested_kwargs) ==
  LET unsupported == requested_kwargs \ declared
  IN  requested_kwargs \ unsupported

\* the keys of the generic mapping a plugin of the kind is called with:
\* output-format plugins (single_source.py:299, 517, 569, 585), the metadata
\* output format (:120), filename formats (:451) and the metadata filename
\* format (:186) get the filtered mapping; algorithm plugins (**alg_args,
\* :874-921, :1056-1075) and interpolators (**interp_args, :929, :1025,
\* :1034, config_based.py:173-175) get the mapping of the product metadata
PluginKwargs(kind, declared, requested_kwargs) ==
  IF kind \in {"output_format", "metadata_output_format", "filename_format",
               "metadata_filename_format"}
  THEN remove_unsupported_kwargs(declared, requested_kwargs)
  ELSE requested_kwargs

\* a plugin call with a generic mapping: up to three keys, any of them
\* declared by the plugin or not; a keyword the plugin does not declare makes
\* the call raise TypeError
Call_plugin_with_kwargs ==
  /\ call = NoCall
  /\ \E kind \in {"output_format", "metadata_output_format", "filename_format",
                  "metadata_filename_format", "algorithm", "interpolator",
                  "bg_interpolator"},
        declared \in SUBSET {"k1", "k2", "k3"},
        requested_kwargs \in SUBSET {"k1", "k2", "k3"} :
       LET passed == PluginKwargs(kind, declared, requested_kwargs)
       IN  call' = [fn |-> "plugin_call",
                    in |-> [kind |-> kind, declared |-> declared,
                            requested_kwargs |-> requested_kwargs],
                    out |-> [passed |-> passed,
                             err |-> IF passed \subseteq declared
                                     THEN "none" ELSE "TypeError"]]
  /\ UNCHANGED flow_vars

InitFn == IdleFlow /\ call = NoCall

NextFn ==
  \/ Call_get_alg_xarray
  \/ Call_verify_area_def
  \/ Call_update_output_dict_from_command_line_args
  \/ Call_output_all_metadata
  \/ Call_plot_data
  \/ Call_process_xarray_dict_to_output_format
  \/ Call_pad_area_definition
  \/ Call_remove_duplicates
  \/ Call_plugin_with_kwargs

SpecFn == InitFn /\ [][NextFn]_vars

\* the products: processing family, algorithm family, required variables,
\* and the minimum_coverage attribute the algorithm puts on its dataset
ProductTable(p1_type) ==
  [p \in {"p1", "p2", "p3", "p4"} |->
     CASE p = "p1" -> [type |-> p1_type, alg_family |-> "xarray_to_numpy",
                       required |-> <<"B1">>, minimum_coverage |-> NoValue]
       [] p = "p2" -> [type |-> "alg_cmap", alg_family |-> "list_numpy_to_numpy",
                       required |-> <<"B1", "B2">>,
                       minimum_coverage |->
                         [has |-> TRUE, val |-> DefaultMinimumCoverage - 1]]
       [] p \in {"p3", "p4"} ->
                      [type |-> "unsectored_xarray_dict_to_output_format",
                       alg_family |-> NoneV, required |-> <<"B1">>,
                       minimum_coverage |-> NoValue]]

\* the choices a YAML config of config_based and the data of a run are built
\* from: the families of the output plugins of o1 and o2, the sector type of
\* the areas of st1, the processing family of p1, whether the config asks
\* for a sectored read, the outputs whose produce_times do not match the
\* time of the data (no_produce), whether no area definition is resolved for
\* the data (no_areas), and whether get_filename returns None for the
\* filename formats of o1 and o2 (no_fnames), whether writing to the product
\* database is requested (product_db), whether $GEOIPS_DB_USER and
\* $GEOIPS_DB_PASS are set (db_user, db_pass), and whether background files
\* are given (fuse_files), the outputs that declare background_products
\* (background_outputs), and the remove_duplicates entry of the outputs
\* (absent, None, false or true)
BaseChoice ==
  [o1_family |-> "image", o2_family |-> "image", st1_sector_type |-> "static",
   p1_type |-> "interp_alg_cmap", sectored_read |-> FALSE, no_produce |-> {},
   no_areas |-> FALSE, no_fnames |-> FALSE, product_db |-> FALSE,
   db_user |-> TRUE, db_pass |-> TRUE, fuse_files |-> FALSE,
   background_outputs |-> {}, remove_duplicates |-> "absent"]

\* single_source.py:1205-1206, config_based.py:868-869: `not getenv(user) or
\* not getenv(pass)` under `if product_db`
CredentialsMissing(c) == c.product_db /\ (~c.db_user \/ ~c.db_pass)

\* the settings of the two credential variables with one of them unset
UnsetCredentials == {<<FALSE, FALSE>>, <<FALSE, TRUE>>, <<TRUE, FALSE>>}

ConfigBasedConfigs ==
  {BaseChoice}
  \* the other choices, with the outputs of the sector type of o1
  \cup {[BaseChoice EXCEPT !.o1_family = f, !.no_produce = {"o3", "o4"}] :
          f \in OutputFamilies \ {BaseChoice.o1_family}}
  \cup {[BaseChoice EXCEPT !.o2_family = "xarray_data", !.st1_sector_type = k,
                           !.no_produce = {"o3", "o4"}] :
          k \in {"static", "reader_defined"}}
  \cup {[BaseChoice EXCEPT !.st1_sector_type = k,
                           !.no_produce = {"o3", "o4"}] :
          k \in {"reader_defined", "self_register"}}
  \cup {[BaseChoice EXCEPT !.p1_type = t] :
          t \in {"alg", "sectored_xarray_dict_to_output_format"}}
  \cup {[BaseChoice EXCEPT !.sectored_read = TRUE,
                           !.no_produce = {"o3", "o4"}]}
  \cup {[BaseChoice EXCEPT !.no_produce = n] :
          n \in {{"o4"}, {"o1"}, {"o1", "o2", "o3", "o4"}}}
  \cup {[BaseChoice EXCEPT !.no_areas = TRUE]}
  \cup {[BaseChoice EXCEPT
           !.p1_type = "sectored_xarray_dict_to_output_format",
           !.o1_family = "xrdict_area_product_outfnames_to_outlist",
           !.o2_family = "xrdict_area_product_outfnames_to_outlist",
           !.no_fnames = b] : b \in BOOLEAN}
  \cup {[BaseChoice EXCEPT !.product_db = TRUE]}
  \* background files: in the runs that end at the credential test, and
  \* with one of two outputs that share a product declaring
  \* background_products
  \cup {[BaseChoice EXCEPT !.product_db = TRUE, !.db_user = u[1],
                           !.db_pass = u[2], !.fuse_files = b] :
          u \in UnsetCredentials, b \in BOOLEAN}
  \cup {[BaseChoice EXCEPT !.fuse_files = TRUE, !.background_outputs = {o},
                           !.no_produce = {"o3", "o4"}] :
          o \in {"o1", "o2"}}
  \* the remove_duplicates entry of the outputs: null, false or true
  \cup {[BaseChoice EXCEPT !.remove_duplicates = r,
                           !.no_produce = {"o2", "o3", "o4"}] :
          r \in {"None", "false", "true"}}

\* the YAML config: outputs and available_sectors in file order
ConfigOf(choice) ==
  [outputs |->
     <<[name |-> "o1", produce |-> "o1" \notin choice.no_produce,
        background_products |-> "o1" \in choice.background_outputs,
        remove_duplicates |-> choice.remove_duplicates,
        requested_sector_type |-> "st1",
        family |-> choice.o1_family,
        product_names |-> <<"p1", "p2">>,
        compare_path |-> <<"cmp", "<product>">>,
        compare_outputs_module |-> "compare_outputs",
        minimum_coverage |-> NoValue,
        fmts |-> IF choice.no_fnames THEN UnnamedFormats(MaxFormats)
                 ELSE Formats(MaxFormats)],
       [name |-> "o2", produce |-> "o2" \notin choice.no_produce,
        background_products |-> "o2" \in choice.background_outputs,
        remove_duplicates |-> choice.remove_duplicates,
        requested_sector_type |-> "st1",
        family |-> choice.o2_family,
        product_names |-> <<"p1">>,
        compare_path |-> <<>>,
        compare_outputs_module |-> NoneV,
        minimum_coverage |-> [has |-> TRUE, val |-> DefaultMinimumCoverage + 1],
        fmts |-> IF choice.no_fnames THEN UnnamedFormats(1) ELSE Formats(1)],
       [name |-> "o3", produce |-> "o3" \notin choice.no_produce,
        background_products |-> "o3" \in choice.background_outputs,
        remove_duplicates |-> choice.remove_duplicates,
        requested_sector_type |-> "st2", family |-> "image",
        product_names |-> <<"p2">>,
        compare_path |-> <<"cmp", "<output>">>,
        compare_outputs_module |-> "compare_outputs",
        minimum_coverage |-> [has |-> TRUE, val |-> DefaultMinimumCoverage + 1],
        fmts |-> Formats(1)],
       [name |-> "o4", produce |-> "o4" \notin choice.no_produce,
        background_products |-> "o4" \in choice.background_outputs,
        remove_duplicates |-> choice.remove_duplicates,
        requested_sector_type |-> "uns",
        family |-> "xrdict_varlist_outfnames_to_outlist",
        product_names |-> <<"p3", "p4">>,
        compare_path |-> <<>>,
        compare_outputs_module |-> NoneV,
        minimum_coverage |-> NoValue, fmts |-> Formats(1)]>>,
   available_sectors |->
     <<[name |-> "st0", unsectored |-> FALSE, adjust_area_def |-> FALSE,
        sector_type |-> "static",
        areas |-> IF choice.no_areas THEN <<>> ELSE <<"a1">>],
       [name |-> "st1", unsectored |-> FALSE, adjust_area_def |-> FALSE,
        sector_type |-> choice.st1_sector_type,
        areas |-> IF choice.no_areas THEN <<>> ELSE <<"a1">>],
       [name |-> "st2", unsectored |-> FALSE, adjust_area_def |-> TRUE,
        sector_type |-> "tc",
        areas |-> IF choice.no_areas THEN <<>> ELSE <<"a1", "a2">>],
       [name |-> "uns", unsectored |-> TRUE, adjust_area_def |-> FALSE,
        sector_type |-> "static",
        areas |-> IF choice.no_areas THEN <<>> ELSE <<"a1">>]>>,
   products |-> ProductTable(choice.p1_type),
   sectored_read |-> choice.sectored_read,
   bg_files |-> choice.fuse_files]

\* config_based.py:640-730: the area names in the order their dict holds
\* them, and for a name its sector types in order
RECURSIVE AreaNamesFrom(_, _, _)
AreaNamesFrom(sectors, i, names) ==
  IF i > Len(sectors) THEN names
  ELSE IF sectors[i].unsectored THEN AreaNamesFrom(sectors, i + 1, names)
       ELSE AreaNamesFrom(sectors, i + 1, DictSetAll(names, sectors[i].areas))

get_area_defs_from_available_sectors(sectors) == AreaNamesFrom(sectors, 1, <<>>)

SectorTypesOf_with_unsectored(sectors, area) ==
  SelectSeq(sectors, LAMBDA st : area \in SeqToSet(st.areas))

SectorTypesOf(sectors, area) ==
  SelectSeq(sectors, LAMBDA st : ~st.unsectored /\ area \in SeqToSet(st.areas))

get_required_outputs_last_first(outputs, sector_type) ==
  LET sel == SelectSeq(outputs, LAMBDA o : o.requested_sector_type = sector_type)
  IN  [i \in 1..Len(sel) |-> sel[Len(sel) + 1 - i]]

\* config_based.py:132-141
get_required_outputs(outputs, sector_type) ==
  SelectSeq(outputs, LAMBDA o : o.requested_sector_type = sector_type)

\* produce_current_time of geoips.dev.output_config: whether the time of
\* the data matches the produce_times of one of the outputs named by
\* output_dict_keys ({NoneV} for None: of any output of the config)
produce_current_time(outputs, output_dict_keys) ==
  \E i \in 1..Len(outputs) :
    /\ NoneV \in output_dict_keys \/ outputs[i].name \in output_dict_keys
    /\ outputs[i].produce

\* config_based.py:1271-1280: the outputs of the sector type the output loop
\* does not skip
OutputsToProduce(outputs, sector_type) ==
  SelectSeq(get_required_outputs(outputs, sector_type),
            LAMBDA o : produce_current_time(outputs, {o.name}))

\* config_based.py:497-532
requires_bg(outputs, sector_type) ==
  \E i \in 1..Len(outputs) :
    /\ outputs[i].background_products
    /\ outputs[i].requested_sector_type = sector_type

\* config_based.py:1089-1123: bg_alg_xarrays holds a dataset for the sector
\* type (the background data being read and sectored without error)
HasBackground(config, sector_type) ==
  config.bg_files /\ requires_bg(config.outputs, sector_type)

\* config_based.py:203-209: the filename extra fields get_bg_xarray puts on
\* the background dataset
BackgroundFields == {"background_data"}

\* config_based.py:535-562
is_required_sector_type(outputs, sector_type) ==
  \E i \in 1..Len(outputs) : outputs[i].requested_sector_type = sector_type

\* config_based.py:1057-1062, single_source.py:1394-1398
AllVars(bundle) == UNION {bundle[i].vars : i \in 1..Len(bundle)}

\* config_based.py:438-481: the (sector type, output, product) triples of
\* process_unsectored_data_outputs in loop order
RECURSIVE UnsectoredWork(_, _, _, _)
UnsectoredWork(sectors, outputs, i, j) ==
  IF i > Len(sectors) THEN <<>>
  ELSE IF j > Len(outputs) THEN UnsectoredWork(sectors, outputs, i + 1, 1)
  ELSE (IF sectors[i].unsectored /\ outputs[j].requested_sector_type = sectors[i].name
        THEN [k \in 1..Len(outputs[j].product_names) |->
                [output |-> outputs[j], product |-> outputs[j].product_names[k]]]
        ELSE <<>>) \o UnsectoredWork(sectors, outputs, i, j + 1)

\* ------------------------------------------------ config_based: positions
Config == ConfigOf(cfg)

Areas == get_area_defs_from_available_sectors(Config.available_sectors)

CurArea == Areas[area_idx]

CurSectorTypes == SectorTypesOf(Config.available_sectors, CurArea)

CurSectorType == CurSectorTypes[st_idx]

RequiredOutputs == OutputsToProduce(Config.outputs, CurSectorType.name)

CurOutput == RequiredOutputs[out_idx]

CurProduct == CurOutput.product_names[prod_idx]

NotSectored(kind) == kind \in {"reader_defined", "self_register"}

\* an exception leaves the orchestrator: the run is over
Abort(e) == pc' = "aborted" /\ err' = e

\* `continue` of the sector-type loop (config_based.py:948), then of the
\* area loop (config_based.py:936)
AdvanceSectorType ==
  /\ out_idx' = 0 /\ prod_idx' = 0
  /\ IF st_idx < Len(CurSectorTypes)
     THEN pc' = "sector" /\ st_idx' = st_idx + 1 /\ area_idx' = area_idx
     ELSE IF area_idx < Len(Areas)
          THEN pc' = "sector" /\ st_idx' = 1 /\ area_idx' = area_idx + 1
          ELSE pc' = "compare" /\ st_idx' = 0 /\ area_idx' = 0

\* `continue` of the product loop (config_based.py:1305), then of the output
\* loop (config_based.py:1271)
AdvanceProduct ==
  IF prod_idx < Len(CurOutput.product_names)
  THEN /\ pc' = "product" /\ prod_idx' = prod_idx + 1
       /\ UNCHANGED <<area_idx, st_idx, out_idx>>
  ELSE IF out_idx < Len(RequiredOutputs)
       THEN /\ pc' = "product" /\ out_idx' = out_idx + 1 /\ prod_idx' = 1
            /\ UNCHANGED <<area_idx, st_idx>>
       ELSE AdvanceSectorType

\* where the step acts
Here(step, output_type, product) ==
  [LastNone EXCEPT !.step = step, !.area = CurArea,
                   !.sector_type = CurSectorType.name,
                   !.output_type = output_type, !.product = product]

\* config_based.py:932-936: the first area and sector type, if any
EnterAreaLoop ==
  IF Areas = <<>>
  THEN pc' = "compare" /\ UNCHANGED <<area_idx, st_idx>>
  ELSE pc' = "sector" /\ area_idx' = 1 /\ st_idx' = 1

\* config_based.py:733-903: the metadata read, the time test of the whole
\* config, the full read, the area definitions
CB_Start ==
  LET \* config_based.py:861-865: bg_reader(bg_files, metadata_only=True)
      bg == IF cfg.fuse_files THEN {"bg_reader"} ELSE {}
      it == [LastNone EXCEPT !.step = "CB_Start", !.did = bg \cup {"reader"}]
  IN
  /\ procflow = "config_based" /\ pc = "start"
  /\ IF CredentialsMissing(cfg)
     THEN /\ Abort("ValueError_Credentials")
          /\ last' = [it EXCEPT !.outcome = "aborted", !.did = bg]
          /\ UNCHANGED <<retval, uns_idx, area_idx, st_idx>>
     ELSE IF ~produce_current_time(Config.outputs, {NoneV})
     THEN /\ retval' = 0 /\ pc' = "done" /\ err' = err
          /\ \E output_file_list_fname \in BOOLEAN :
               last' = [it EXCEPT !.outcome = "returned",
                                  !.file_list.given = output_file_list_fname]
          /\ UNCHANGED <<uns_idx, area_idx, st_idx>>
     ELSE /\ retval' = retval /\ err' = err
          /\ last' = [it EXCEPT !.outcome = "started"]
          /\ IF UnsectoredWork(Config.available_sectors, Config.outputs, 1, 1)
                = <<>>
             THEN EnterAreaLoop /\ uns_idx' = uns_idx
             ELSE pc' = "unsectored" /\ uns_idx' = 1
                  /\ UNCHANGED <<area_idx, st_idx>>
  /\ UNCHANGED <<new_attrs, procflow, cfg, out_idx, prod_idx, final_products,
                 area_def, pad_sect_xarrays, sect_xarrays, pad_alg_xarrays,
                 alg_xarrays, alg_calls, call>>

\* ------------------------------------- config_based: unsectored outputs
\* config_based.py:401-494, one (sector type, output, product) per step
CB_Unsectored ==
  LET work == UnsectoredWork(Config.available_sectors, Config.outputs, 1, 1)
      w == work[uns_idx]
      c == set_comparison_path(w.output.compare_path,
                               w.output.compare_outputs_module,
                               w.product, w.output.name, <<>>)
      fp1 == LedgerUse(final_products, c)
      names == get_output_filenames(w.output.fmts)
      db(files) == WriteAllToDatabase(cfg.product_db,
                                      LedgerAdd(fp1, c.cpath, files),
                                      c.cpath, files)
      it == [LastNone EXCEPT !.step = "CB_Unsectored",
                             !.sector_type = w.output.requested_sector_type,
                             !.output_type = w.output.name,
                             !.product = w.product,
                             !.family = w.output.family,
                             !.cpath = c.cpath, !.expected = names.out]
  IN
  /\ procflow = "config_based" /\ pc = "unsectored"
  /\ \E rendered \in RenderChoices(names.out), written \in WriterChoices(names.md) :
       LET r == process_xarray_dict_to_output_format(
                  Config.products[w.product].type, w.output.family,
                  w.output.fmts, rendered, written)
           files == TagFiles(r.files, it)
       IN  IF r.err # "none"
           THEN /\ Abort(r.err)
                /\ final_products' = fp1
                /\ last' = [it EXCEPT !.outcome = "aborted", !.rendered = rendered,
                                      !.did = {"render"}]
                /\ UNCHANGED <<uns_idx, area_idx, st_idx>>
           ELSE IF db(files).err # "none"
           THEN /\ Abort(db(files).err)
                /\ final_products' = db(files).fp
                /\ last' = [it EXCEPT !.outcome = "aborted",
                                      !.rendered = rendered, !.files = files,
                                      !.did = {"render", "write_to_database"}]
                /\ UNCHANGED <<uns_idx, area_idx, st_idx>>
           ELSE /\ final_products' = db(files).fp
                /\ last' = [it EXCEPT !.outcome = "unsectored_output",
                                      !.rendered = rendered, !.files = files,
                                      !.did = {"render"}]
                /\ err' = err
                /\ uns_idx' = uns_idx + 1
                /\ IF uns_idx < Len(work)
                   THEN pc' = "unsectored" /\ UNCHANGED <<area_idx, st_idx>>
                   ELSE EnterAreaLoop
  /\ UNCHANGED <<new_attrs, procflow, cfg, out_idx, prod_idx, area_def, pad_sect_xarrays,
                 sect_xarrays, pad_alg_xarrays, alg_xarrays, alg_calls, retval,
                 call>>

\* ------------------------------------------ config_based: padded sectoring
\* config_based.py:948-1070
CB_Sector ==
  LET kind == CurSectorType.sector_type
      it == Here("CB_Sector", NoneV, NoneV)
      \* get_sectored_read, config_based.py:959-974 and 227-253
      ReadOutcomes == IF Config.sectored_read
                      THEN {"read", "IndexError", "CoverageError"}
                      ELSE {"none"}
      Stay == UNCHANGED <<area_idx, st_idx, out_idx, prod_idx>>
  IN
  /\ procflow = "config_based" /\ pc = "sector"
  /\ \E read \in ReadOutcomes :
       LET did0 == IF read = "none" THEN {} ELSE {"reader"}
       IN
       IF read = "CoverageError"
       THEN /\ Abort(read) /\ Stay
            /\ last' = [it EXCEPT !.outcome = "aborted", !.did = did0,
                                  !.raised = read]
            /\ UNCHANGED <<area_def, pad_sect_xarrays>>
       ELSE IF read = "IndexError"
       THEN /\ AdvanceSectorType /\ err' = err
            /\ last' = [it EXCEPT !.outcome = "skipped_no_coverage",
                                  !.did = did0, !.raised = read]
            /\ UNCHANGED <<area_def, pad_sect_xarrays>>
       ELSE IF ~is_required_sector_type(Config.outputs, CurSectorType.name)
       THEN /\ AdvanceSectorType /\ err' = err
            /\ last' = [it EXCEPT !.outcome = "skipped_sector_type",
                                  !.did = did0]
            /\ UNCHANGED <<area_def, pad_sect_xarrays>>
       ELSE
         \* sector_xarrays, config_based.py:1041-1051
         LET did1 == IF NotSectored(kind) THEN did0
                     ELSE did0 \cup {"sector_xarrays"}
         IN
         \E pad \in (IF NotSectored(kind) THEN {FullData} ELSE SectorChoices) :
           IF Len(pad) = 0
           THEN /\ AdvanceSectorType /\ err' = err
                /\ last' = [it EXCEPT !.outcome = "skipped_empty",
                                      !.data = pad, !.did = did1]
                /\ UNCHANGED <<area_def, pad_sect_xarrays>>
           ELSE /\ pc' = "verify" /\ err' = err /\ Stay
                /\ pad_sect_xarrays' = pad
                /\ area_def' = [name |-> CurArea, sector_type |-> kind,
                                adjustment_id |-> FALSE]
                /\ last' = [it EXCEPT !.outcome = "sectored", !.data = pad,
                                      !.did = did1]
  /\ UNCHANGED <<new_attrs, procflow, cfg, uns_idx, final_products, sect_xarrays,
                 pad_alg_xarrays, alg_xarrays, alg_calls, retval, call>>

\* config_based.py:1072-1086
CB_Verify ==
  LET it == Here("CB_Verify", NoneV, NoneV)
  IN
  /\ procflow = "config_based" /\ pc = "verify"
  /\ \E filtered \in SUBSET SeqToSet(Areas), span \in 0..MaxSpanHours :
       LET r == verify_area_def(filtered, area_def.name, 0, span)
       IN  IF r.err # "none"
           THEN /\ Abort(r.err)
                /\ last' = [it EXCEPT !.outcome = "aborted"]
                /\ UNCHANGED <<area_idx, st_idx, out_idx, prod_idx>>
           ELSE IF ~r.value
                THEN /\ AdvanceSectorType
                     /\ err' = err
                     /\ last' = [it EXCEPT !.outcome = "skipped_verify"]
                ELSE /\ pc' = "adjust"
                     /\ err' = err
                     /\ last' = [it EXCEPT !.outcome = "verified"]
                     /\ UNCHANGED <<area_idx, st_idx, out_idx, prod_idx>>
  /\ UNCHANGED <<new_attrs, procflow, cfg, uns_idx, final_products, area_def,
                 pad_sect_xarrays, sect_xarrays, pad_alg_xarrays, alg_xarrays,
                 alg_calls, retval, call>>

\* -------------------------- config_based: adjuster and exact sectoring
\* what sector_xarrays can return for the padded bundle
ExactChoices(kind, pad) == IF NotSectored(kind) THEN {pad} ELSE {<<>>, pad}

\* what the area-definition adjuster writes
AdjusterFileNames == <<"adj1">>

\* config_based.py:1125-1270
CB_Adjust ==
  LET kind == area_def.sector_type
      adjust == CurSectorType.adjust_area_def
      it == Here("CB_Adjust", "archer", "archer")
      c == set_comparison_path(<<>>, NoneV, "archer", "archer", <<>>)
      files == TagFiles(AdjusterFileNames, it)
      fp1 == IF adjust
             THEN LedgerAdd(LedgerUse(final_products, c), c.cpath, files)
             ELSE final_products
      \* sector_xarrays is called at config_based.py:1157 and 1245
      Did == (IF adjust THEN {"area_def_adjuster"} ELSE {})
             \cup (IF NotSectored(kind) THEN {} ELSE {"sector_xarrays"})
  IN
  /\ procflow = "config_based" /\ pc = "adjust"
  /\ \E s1 \in ExactChoices(kind, pad_sect_xarrays),
        s2 \in ExactChoices(kind, pad_sect_xarrays),
        adjustment_id \in BOOLEAN :
       IF adjust /\ Len(s1) = 0
       THEN /\ AdvanceSectorType
            /\ last' = [it EXCEPT !.outcome = "skipped_empty_exact",
                                  !.did = Did \ {"area_def_adjuster"}]
            /\ UNCHANGED <<final_products, area_def, sect_xarrays,
                           pad_alg_xarrays, alg_xarrays, alg_calls>>
       ELSE /\ final_products' = fp1
            /\ area_def' = [area_def EXCEPT
                              !.adjustment_id = adjust /\ adjustment_id]
            /\ IF Len(s2) = 0
               THEN /\ AdvanceSectorType
                    /\ last' = [it EXCEPT !.outcome = "skipped_empty_exact",
                                          !.cpath = IF adjust THEN c.cpath ELSE <<>>,
                                          !.files = IF adjust THEN files ELSE <<>>,
                                          !.did = Did]
                    /\ UNCHANGED <<sect_xarrays, pad_alg_xarrays, alg_xarrays,
                                   alg_calls>>
               ELSE /\ sect_xarrays' = s2
                    /\ pad_alg_xarrays' = <<>>
                    /\ alg_xarrays' = <<>>
                    /\ alg_calls' = [p \in DOMAIN Config.products |-> 0]
                    /\ IF RequiredOutputs = <<>>
                       THEN AdvanceSectorType
                       ELSE /\ pc' = "product" /\ out_idx' = 1 /\ prod_idx' = 1
                            /\ UNCHANGED <<area_idx, st_idx>>
                    /\ last' = [it EXCEPT !.outcome = IF RequiredOutputs = <<>>
                                                      THEN "no_outputs"
                                                      ELSE "ready",
                                          !.cpath = IF adjust THEN c.cpath ELSE <<>>,
                                          !.files = IF adjust THEN files ELSE <<>>,
                                          !.did = Did]
  /\ UNCHANGED <<new_attrs, procflow, cfg, err, uns_idx, pad_sect_xarrays, retval, call>>

\* ------------------------------------------- config_based: one product
\* config_based.py:1392-1427: which memo table the request uses
MemoTable(family, kind) ==
  IF family = "xarray_data" THEN "pad_alg_xarrays"
  ELSE IF NotSectored(kind) THEN NoneV
  ELSE "alg_xarrays"

\* the arguments of the get_alg_xarray call of config_based.py:1392-1427
CB_AlgInput(family, kind, product, info) ==
  LET padded == family = "xarray_data" \/ NotSectored(kind)
      given == IF padded THEN pad_sect_xarrays ELSE sect_xarrays
  IN  [bundle |-> given, resect |-> given,
       adj |-> ~padded /\ area_def.adjustment_id,
       product_name |-> product,
       resector |-> ~(family # "xarray_data" /\ NotSectored(kind)),
       resampled_read |-> FALSE,
       variable_names_given |-> TRUE, variable_names |-> info.required,
       required |-> info.required, pinned |-> {}, pins |-> {},
       product_type |-> info.type, alg_family |-> info.alg_family,
       has_interp |-> TRUE, interp_in_place |-> TRUE]

\* config_based.py:1345-1356, single_source.py:1399
HasAllVariables_always(required, bundle) == TRUE

HasAllVariables(required, bundle) == SeqToSet(required) \subseteq AllVars(bundle)

\* config_based.py:1305-1479, the body of the product loop up to the
\* coverage gate
CB_Product ==
  LET o == CurOutput
      product == CurProduct
      info == Config.products[product]
      kind == area_def.sector_type
      c == set_comparison_path(o.compare_path, o.compare_outputs_module,
                               product, o.name, <<>>)
      fp1 == LedgerUse(final_products, c)
      names == get_output_filenames(o.fmts)
      it == [Here("CB_Product", o.name, product) EXCEPT
               !.family = o.family, !.data = pad_sect_xarrays,
               !.required = info.required]
      used == [it EXCEPT !.cpath = c.cpath]
      table == MemoTable(o.family, kind)
      cached == \/ table = "pad_alg_xarrays" /\ product \in DOMAIN pad_alg_xarrays
                \/ table = "alg_xarrays" /\ product \in DOMAIN alg_xarrays
      a == CB_AlgInput(o.family, kind, product, info)
      alg == get_alg_xarray(a)
      AlgDid == IF cached THEN {}
                ELSE {"get_alg_xarray"}
                     \cup (IF a.resector THEN {"sector_xarrays"} ELSE {})
      calls1 == IF cached THEN alg_calls
                ELSE [alg_calls EXCEPT ![product] = @ + 1]
      pad1 == IF ~cached /\ table = "pad_alg_xarrays"
              THEN (product :> alg.ds) @@ pad_alg_xarrays ELSE pad_alg_xarrays
      alg1 == IF ~cached /\ table = "alg_xarrays"
              THEN (product :> alg.ds) @@ alg_xarrays ELSE alg_xarrays
      minimum_coverage ==
        EffectiveMinimumCoverage(o.minimum_coverage, info.minimum_coverage)
      Keep == UNCHANGED <<area_idx, st_idx, out_idx, prod_idx>>
      db(files) == WriteAllToDatabase(cfg.product_db,
                                      LedgerAdd(fp1, c.cpath, files),
                                      c.cpath, files)
      AlgPath(pre) ==
        LET given == [used EXCEPT !.did = pre \cup AlgDid,
                                  !.alg_bundle = IF cached THEN <<>>
                                                 ELSE a.bundle]
        IN
        IF ~cached /\ alg.err # "none"
        THEN /\ Abort(alg.err) /\ Keep
             /\ final_products' = fp1
             /\ alg_calls' = calls1
             /\ last' = [given EXCEPT !.outcome = "aborted"]
             /\ UNCHANGED <<pad_alg_xarrays, alg_xarrays>>
        ELSE
          /\ alg_calls' = calls1 /\ pad_alg_xarrays' = pad1 /\ alg_xarrays' = alg1
          /\ final_products' = fp1
          /\ err' = err
          /\ \E covg \in CovgValues, fname_covg \in CovgValues :
               LET gated == [given EXCEPT !.gate = TRUE, !.covg = covg,
                                         !.fname_covg = fname_covg,
                                         !.override = o.minimum_coverage,
                                         !.attr = info.minimum_coverage,
                                         !.minimum_coverage = minimum_coverage]
               IN  IF InsufficientCoverage(covg, fname_covg, minimum_coverage)
                   THEN /\ AdvanceProduct
                        /\ last' = [gated EXCEPT !.outcome = "skipped_coverage"]
                   ELSE /\ pc' = "plot" /\ Keep
                        /\ last' = [gated EXCEPT !.outcome = "to_plot"]
  IN
  /\ procflow = "config_based" /\ pc = "product"
  /\ IF ~HasAllVariables(info.required, pad_sect_xarrays)
     THEN /\ AdvanceProduct /\ err' = err
          /\ last' = [it EXCEPT !.outcome = "skipped_variables"]
          /\ UNCHANGED <<final_products, pad_alg_xarrays, alg_xarrays, alg_calls>>
     ELSE IF info.type = "sectored_xarray_dict_to_output_format"
     THEN \E rendered \in RenderChoices(names.out),
             written \in WriterChoices(names.md) :
            LET r == process_sectored_data_output(info.type, o.family, o.fmts,
                                                  rendered, written)
                files == TagFiles(r.files, it)
            IN  IF r.err # "none"
                THEN /\ Abort(r.err) /\ Keep
                     /\ final_products' = fp1
                     /\ last' = [used EXCEPT !.outcome = "aborted",
                                             !.did = {"render"},
                                             !.expected = names.out,
                                             !.rendered = rendered]
                     /\ UNCHANGED <<pad_alg_xarrays, alg_xarrays, alg_calls>>
                ELSE IF r.files # <<>> /\ db(files).err # "none"
                THEN /\ Abort(db(files).err) /\ Keep
                     /\ final_products' = db(files).fp
                     /\ last' = [used EXCEPT !.outcome = "aborted",
                                             !.did = {"render", "write_to_database"},
                                             !.expected = names.out,
                                             !.rendered = rendered,
                                             !.files = files]
                     /\ UNCHANGED <<pad_alg_xarrays, alg_xarrays, alg_calls>>
                ELSE IF r.files # <<>>
                THEN /\ AdvanceProduct /\ err' = err
                     /\ final_products' = db(files).fp
                     /\ last' = [used EXCEPT !.outcome = "sectored_output",
                                             !.did = {"render"},
                                             !.expected = names.out,
                                             !.rendered = rendered,
                                             !.files = files]
                     /\ UNCHANGED <<pad_alg_xarrays, alg_xarrays, alg_calls>>
                ELSE AlgPath({"render"})
     ELSE AlgPath({})
  /\ UNCHANGED <<new_attrs, procflow, cfg, uns_idx, area_def, pad_sect_xarrays,
                 sect_xarrays, retval, call>>

\* config_based.py:1481-1531, the rest of the body: the render and the
\* ledger append
CB_Plot ==
  LET o == CurOutput
      product == CurProduct
      c == set_comparison_path(o.compare_path, o.compare_outputs_module,
                               product, o.name, <<>>)
      names == get_output_filenames(o.fmts)
      expected == IF o.family \in OUTPUT_FAMILIES_WITH_NO_OUTFNAMES_ARG
                  THEN <<>> ELSE names.out
      db(files) == WriteAllToDatabase(cfg.product_db,
                                      LedgerAdd(final_products, c.cpath, files),
                                      c.cpath, files)
      table == MemoTable(o.family, area_def.sector_type)
      \* the dataset CB_Product got: the memoised object, or the one of a
      \* call of its own
      alg_xarray == IF table = "pad_alg_xarrays" THEN pad_alg_xarrays[product]
                    ELSE IF table = "alg_xarrays" THEN alg_xarrays[product]
                    ELSE EmptyDataset
      \* config_based.py:1491-1498: combine_filename_extra_fields writes the
      \* fields of the background dataset into alg_xarray.attrs
      combine == /\ Config.bg_files /\ o.background_products
                 /\ HasBackground(Config, CurSectorType.name)
      shown == IF combine
               THEN [alg_xarray EXCEPT !.fef = @ \cup BackgroundFields]
               ELSE alg_xarray
      it == [Here("CB_Plot", o.name, product) EXCEPT
               !.family = o.family, !.cpath = c.cpath, !.plotted = TRUE,
               !.did = {"render"}, !.fef = shown.fef]
      \* config_based.py:1523-1531: the entry is there and is not None
      dups == IF o.remove_duplicates \notin {"absent", "None"}
              THEN {"remove_duplicates"} ELSE {}
  IN
  /\ procflow = "config_based" /\ pc = "plot"
  /\ \E rendered \in RenderChoices(expected),
        written \in WriterChoices(names.md) :
       LET r == plot_data(o.family, FALSE, o.fmts, rendered, written)
           files == TagFiles(r.files, it)
           plotted == [it EXCEPT !.expected = r.expected, !.rendered = rendered]
       IN  IF r.err # "none"
           THEN /\ Abort(r.err)
                /\ UNCHANGED <<area_idx, st_idx, out_idx, prod_idx>>
                /\ final_products' = final_products
                /\ last' = [plotted EXCEPT !.outcome = "aborted"]
           ELSE IF db(files).err # "none"
           THEN /\ Abort(db(files).err)
                /\ UNCHANGED <<area_idx, st_idx, out_idx, prod_idx>>
                /\ final_products' = db(files).fp
                /\ last' = [plotted EXCEPT
                              !.outcome = "aborted", !.files = files,
                              !.did = {"render", "write_to_database"}]
           ELSE /\ AdvanceProduct /\ err' = err
                /\ final_products' = db(files).fp
                /\ last' = [plotted EXCEPT !.outcome = "rendered",
                                           !.files = files,
                                           !.did = @ \cup dups]
  /\ pad_alg_xarrays' = IF combine /\ table = "pad_alg_xarrays"
                        THEN [pad_alg_xarrays EXCEPT ![product] = shown]
                        ELSE pad_alg_xarrays
  /\ alg_xarrays' = IF combine /\ table = "alg_xarrays"
                    THEN [alg_xarrays EXCEPT ![product] = shown]
                    ELSE alg_xarrays
  /\ UNCHANGED <<new_attrs, procflow, cfg, uns_idx, area_def, pad_sect_xarrays,
                 sect_xarrays, alg_calls, retval, call>>

\* -------------------------------------------- config_based: comparisons
RECURSIVE SumSeq(_)
SumSeq(q) == IF q = <<>> THEN 0 ELSE Head(q) + SumSeq(Tail(q))

\* what the comparison modules may return for the keys of a ledger of n
\* keys: every comparison succeeds, every comparison reports one
\* difference, or the i-th reports i differences
CompareResults(n) ==
  {[i \in 1..n |-> 0], [i \in 1..n |-> 1], [i \in 1..n |-> i]}

\* config_based.py:1542
ComparedKey_every(cpath) == TRUE

ComparedKey(cpath) == cpath # <<"no_comparison">>

\* config_based.py:1539-1551: the loop over the keys of final_products from
\* the i-th on; results[i] is what the comparison module of the i-th key
\* returns.  compared lists the calls made to comparison modules.
RECURSIVE CompareLoop(_, _, _, _)
CompareLoop(fp, results, i, acc) ==
  IF i > Len(fp) THEN acc
  ELSE IF ComparedKey(fp[i].cpath)
       THEN CompareLoop(fp, results, i + 1,
              [retval |-> acc.retval + results[i],
               compared |-> Append(acc.compared,
                  [cpath |-> fp[i].cpath, files |-> fp[i].files,
                   compare_outputs_module |-> fp[i].compare_outputs_module,
                   curr_retval |-> results[i]])])
       ELSE CompareLoop(fp, results, i + 1, acc)

CompareAll(fp, results) ==
  CompareLoop(fp, results, 1, [retval |-> 0, compared |-> <<>>])

\* config_based.py:1533-1628
CB_Compare ==
  /\ procflow = "config_based" /\ pc = "compare"
  /\ \E results \in CompareResults(Len(final_products)),
        output_file_list_fname \in BOOLEAN :
       LET c == CompareAll(final_products, results)
       IN  /\ retval' = c.retval
           /\ last' = [LastNone EXCEPT
                         !.step = "CB_Compare", !.outcome = "returned",
                         !.compared = c.compared,
                         !.file_list =
                            IF output_file_list_fname
                            THEN [given |-> TRUE, written |-> TRUE,
                                  text |-> CB_FileListText(final_products)]
                            ELSE @]
  /\ pc' = "done"
  /\ UNCHANGED <<new_attrs, procflow, cfg, err, area_idx, st_idx, out_idx, prod_idx,
                 uns_idx, final_products, area_def, pad_sect_xarrays,
                 sect_xarrays, pad_alg_xarrays, alg_xarrays, alg_calls, call>>

InitConfigBased ==
  /\ procflow = "config_based"
  /\ cfg \in ConfigBasedConfigs
  /\ pc = "start"
  /\ err = "none"
  /\ area_idx = 0 /\ st_idx = 0 /\ out_idx = 0 /\ prod_idx = 0 /\ uns_idx = 0
  /\ final_products = <<>>
  /\ area_def = [name |-> NoneV, sector_type |-> NoneV, adjustment_id |-> FALSE]
  /\ pad_sect_xarrays = <<>>
  /\ sect_xarrays = <<>>
  /\ pad_alg_xarrays = <<>>
  /\ alg_xarrays = <<>>
  /\ alg_calls = <<>>
  /\ last = LastNone
  /\ retval = NoneV
  /\ new_attrs = NoAttrs
  /\ call = NoCall

\* ------------------------------------------------------- single_source
\* the command line of a single_source run and the product it names: the
\* output plugin's family, the sector type of the areas, the product's
\* processing family, whether an area-definition adjuster is named, what
\* get_minimum_coverage finds on the command line (minimum_coverage), and
\* the minimum_coverage attribute the product's algorithm puts on its
\* dataset (product_minimum_coverage), whether writing to the product
\* database is requested (product_db) and whether $G2DB_USER and $G2DB_PASS
\* are set (db_user, db_pass)
BaseCommandLine ==
  [family |-> "image", sector_type |-> "static",
   product_type |-> "interp_alg_cmap", adjust_area_def |-> FALSE,
   compare_path |-> <<"cmp", "<product>">>,
   minimum_coverage |-> NoValue, product_minimum_coverage |-> NoValue,
   sectored_read |-> FALSE, no_fnames |-> FALSE, product_db |-> FALSE,
   db_user |-> TRUE, db_pass |-> TRUE]

SingleSourceConfigs ==
  {[BaseCommandLine EXCEPT !.family = f] : f \in OutputFamilies}
  \cup {[BaseCommandLine EXCEPT !.sector_type = k] :
          k \in {"reader_defined", "self_register"}}
  \cup {[BaseCommandLine EXCEPT !.product_type = t] :
          t \in {"alg", "alg_cmap", "sectored_xarray_dict_to_output_format",
                 "unsectored_xarray_dict_to_output_format",
                 "unsectored_xarray_dict_area_to_output_format"}}
  \cup {[BaseCommandLine EXCEPT !.adjust_area_def = TRUE]}
  \cup {[BaseCommandLine EXCEPT !.sectored_read = TRUE]}
  \cup {[BaseCommandLine EXCEPT
           !.product_type = "sectored_xarray_dict_to_output_format",
           !.family = "xrdict_area_product_outfnames_to_outlist",
           !.no_fnames = b] : b \in BOOLEAN}
  \cup {[BaseCommandLine EXCEPT
           !.product_minimum_coverage =
              [has |-> TRUE, val |-> DefaultMinimumCoverage - 1]]}
  \cup {[BaseCommandLine EXCEPT
           !.minimum_coverage =
              [has |-> TRUE, val |-> DefaultMinimumCoverage + 1],
           !.product_minimum_coverage =
              [has |-> TRUE, val |-> DefaultMinimumCoverage - 1]]}
  \cup {[BaseCommandLine EXCEPT !.product_db = TRUE]}
  \cup {[BaseCommandLine EXCEPT !.product_db = TRUE, !.db_user = u[1],
                                !.db_pass = u[2]] : u \in UnsetCredentials}

\* the product of the run
SS_ProductName == "p2"

SS_Info ==
  [type |-> cfg.product_type, alg_family |-> "list_numpy_to_numpy",
   required |-> <<"B1", "B2">>,
   minimum_coverage |-> cfg.product_minimum_coverage]

\* what get_area_defs_from_command_line_args returns (single_source.py:1225)
SS_Areas ==
  IF cfg.product_type = "unsectored_xarray_dict_to_output_format"
  THEN <<>> ELSE <<"a1", "a2">>

SS_Formats ==
  IF cfg.no_fnames THEN UnnamedFormats(MaxFormats) ELSE Formats(MaxFormats)

SS_Here(step) ==
  [LastNone EXCEPT !.step = step,
                   !.area = IF area_idx \in 1..Len(SS_Areas)
                            THEN SS_Areas[area_idx] ELSE NoneV,
                   !.product = SS_ProductName, !.family = cfg.family]

\* `continue` of the area loop (single_source.py:1260)
SS_AdvanceArea ==
  IF area_idx < Len(SS_Areas)
  THEN pc' = "sector" /\ area_idx' = area_idx + 1
  ELSE pc' = "finish" /\ area_idx' = 0

\* single_source.py:1118-1258
SS_Start ==
  LET names == get_output_filenames(SS_Formats)
      \* single_source.py:1210-1212: reader(fnames, metadata_only=True)
      it == [SS_Here("SS_Start") EXCEPT !.expected = names.out,
                                        !.did = {"reader"}]
      first == IF SS_Areas = <<>> THEN "finish" ELSE "sector"
  IN
  /\ procflow = "single_source" /\ pc = "start"
  /\ IF CredentialsMissing(cfg)
     THEN /\ Abort("ValueError_Credentials")
          /\ last' = [it EXCEPT !.outcome = "aborted", !.did = {}]
          /\ UNCHANGED <<final_products, area_idx>>
     ELSE IF cfg.product_type = "unsectored_xarray_dict_to_output_format"
     THEN \E rendered \in RenderChoices(names.out),
             written \in WriterChoices(names.md) :
            LET r == process_xarray_dict_to_output_format(
                       cfg.product_type, cfg.family, SS_Formats, rendered, written)
                files == TagFiles(r.files, it)
            IN  IF r.err # "none"
                THEN /\ Abort(r.err)
                     /\ last' = [it EXCEPT !.outcome = "aborted",
                                           !.rendered = rendered]
                     /\ UNCHANGED <<final_products, area_idx>>
                ELSE /\ pc' = first /\ err' = err
                     /\ area_idx' = IF first = "sector" THEN 1 ELSE 0
                     /\ final_products' = final_products \o files
                     /\ last' = [it EXCEPT !.outcome = "unsectored_output",
                                           !.rendered = rendered,
                                           !.files = files]
     ELSE /\ pc' = first /\ err' = err
          /\ area_idx' = IF first = "sector" THEN 1 ELSE 0
          /\ last' = [it EXCEPT !.outcome = "started"]
          /\ UNCHANGED final_products
  /\ UNCHANGED <<new_attrs, procflow, cfg, st_idx, out_idx, prod_idx, uns_idx, area_def,
                 pad_sect_xarrays, sect_xarrays, pad_alg_xarrays, alg_xarrays,
                 alg_calls, retval, call>>

\* single_source.py:1260-1309
SS_Sector ==
  LET kind == cfg.sector_type
      names == get_output_filenames(SS_Formats)
      it == SS_Here("SS_Sector")
      \* the reader call of single_source.py:1273-1283
      ReadOutcomes == IF cfg.sectored_read
                      THEN {"read", "IndexError", "CoverageError"}
                      ELSE {"none"}
  IN
  /\ procflow = "single_source" /\ pc = "sector"
  /\ IF cfg.product_type = "unsectored_xarray_dict_area_to_output_format"
     THEN \E rendered \in RenderChoices(names.out),
             written \in WriterChoices(names.md) :
            LET r == process_xarray_dict_to_output_format(
                       cfg.product_type, cfg.family, SS_Formats, rendered, written)
                files == TagFiles(r.files, it)
            IN  IF r.err # "none"
                THEN /\ Abort(r.err)
                     /\ last' = [it EXCEPT !.outcome = "aborted",
                                           !.expected = names.out,
                                           !.rendered = rendered]
                     /\ UNCHANGED <<final_products, area_idx, area_def,
                                    pad_sect_xarrays>>
                ELSE /\ SS_AdvanceArea /\ err' = err
                     /\ final_products' = final_products \o files
                     /\ last' = [it EXCEPT !.outcome = "unsectored_output",
                                           !.expected = names.out,
                                           !.rendered = rendered,
                                           !.files = files]
                     /\ UNCHANGED <<area_def, pad_sect_xarrays>>
     ELSE
       \E read \in ReadOutcomes :
         LET did0 == IF read = "none" THEN {} ELSE {"reader"}
             did1 == IF NotSectored(kind) THEN did0
                     ELSE did0 \cup {"sector_xarrays"}
         IN
         IF read = "CoverageError"
         THEN /\ Abort(read)
              /\ last' = [it EXCEPT !.outcome = "aborted", !.did = did0,
                                    !.raised = read]
              /\ UNCHANGED <<final_products, area_idx, area_def,
                             pad_sect_xarrays>>
         ELSE IF read = "IndexError"
         THEN /\ SS_AdvanceArea /\ err' = err
              /\ last' = [it EXCEPT !.outcome = "skipped_no_coverage",
                                    !.did = did0, !.raised = read]
              /\ UNCHANGED <<final_products, area_def, pad_sect_xarrays>>
         ELSE
           \E pad \in (IF NotSectored(kind) THEN {FullData} ELSE SectorChoices) :
             IF Len(pad) = 0
             THEN /\ SS_AdvanceArea /\ err' = err
                  /\ last' = [it EXCEPT !.outcome = "skipped_empty",
                                        !.data = pad, !.did = did1]
                  /\ UNCHANGED <<final_products, area_def, pad_sect_xarrays>>
             ELSE /\ pc' = "verify" /\ err' = err
                  /\ pad_sect_xarrays' = pad
                  /\ area_def' = [name |-> SS_Areas[area_idx],
                                  sector_type |-> kind, adjustment_id |-> FALSE]
                  /\ last' = [it EXCEPT !.outcome = "sectored", !.data = pad,
                                        !.did = did1]
                  /\ UNCHANGED <<final_products, area_idx>>
  /\ UNCHANGED <<new_attrs, procflow, cfg, st_idx, out_idx, prod_idx, uns_idx,
                 sect_xarrays, pad_alg_xarrays, alg_xarrays, alg_calls, retval,
                 call>>

\* single_source.py:1311-1320
SS_Verify ==
  LET it == SS_Here("SS_Verify")
  IN
  /\ procflow = "single_source" /\ pc = "verify"
  /\ \E filtered \in SUBSET SeqToSet(SS_Areas), span \in 0..MaxSpanHours :
       LET r == verify_area_def(filtered, area_def.name, 0, span)
       IN  IF r.err # "none"
           THEN /\ Abort(r.err)
                /\ last' = [it EXCEPT !.outcome = "aborted"]
                /\ UNCHANGED area_idx
           ELSE IF ~r.value
                THEN /\ SS_AdvanceArea /\ err' = err
                     /\ last' = [it EXCEPT !.outcome = "skipped_verify"]
                ELSE /\ pc' = "product" /\ err' = err
                     /\ last' = [it EXCEPT !.outcome = "verified"]
                     /\ UNCHANGED area_idx
  /\ UNCHANGED <<new_attrs, procflow, cfg, st_idx, out_idx, prod_idx, uns_idx,
                 final_products, area_def, pad_sect_xarrays, sect_xarrays,
                 pad_alg_xarrays, alg_xarrays, alg_calls, retval, call>>

\* the arguments of the get_alg_xarray call of single_source.py:1399-1431
SS_AlgInput(kind, info, adjusted, resect) ==
  LET padded == cfg.family = "xarray_data" \/ NotSectored(kind)
  IN  [bundle |-> pad_sect_xarrays,
       resect |-> IF padded THEN pad_sect_xarrays ELSE resect,
       adj |-> ~padded /\ adjusted,
       product_name |-> SS_ProductName,
       resector |-> ~padded,
       resampled_read |-> FALSE,
       variable_names_given |-> (cfg.family # "xarray_data" /\ NotSectored(kind)),
       variable_names |-> IF cfg.family # "xarray_data" /\ NotSectored(kind)
                          THEN info.required ELSE <<>>,
       required |-> info.required, pinned |-> {}, pins |-> {},
       product_type |-> info.type, alg_family |-> info.alg_family,
       has_interp |-> TRUE, interp_in_place |-> TRUE]

\* single_source.py:1322-1500: the body of the area loop up to the coverage
\* gate
SS_Product ==
  LET kind == area_def.sector_type
      info == SS_Info
      names == get_output_filenames(SS_Formats)
      it == [SS_Here("SS_Product") EXCEPT !.data = pad_sect_xarrays,
                                          !.required = info.required]
      minimum_coverage ==
        EffectiveMinimumCoverage(cfg.minimum_coverage, info.minimum_coverage)
      AlgPath ==
        \E adjustment_id \in BOOLEAN, resect \in ExactChoices(kind, pad_sect_xarrays) :
          LET adjusted == cfg.adjust_area_def /\ adjustment_id
              a == SS_AlgInput(kind, info, adjusted, resect)
              alg == get_alg_xarray(a)
              \* sector_xarrays is called at single_source.py:1352
              AdjDid == IF cfg.adjust_area_def
                        THEN {"area_def_adjuster"}
                             \cup (IF NotSectored(kind) THEN {}
                                   ELSE {"sector_xarrays"})
                        ELSE {}
              given == [it EXCEPT
                          !.did = AdjDid \cup {"get_alg_xarray"}
                                  \cup (IF a.resector THEN {"sector_xarrays"}
                                        ELSE {}),
                          !.alg_bundle = a.bundle]
          IN
          /\ area_def' = [area_def EXCEPT !.adjustment_id = adjusted]
          \* single_source.py:1386-1391: set when the adjusted area
          \* definition has an adjustment_id, left as it is otherwise
          /\ new_attrs' = IF adjusted
                          THEN [new_attrs EXCEPT
                                  !.filename_extra_fields =
                                     [adjustment_id |-> AdjustmentIdOf(area_def.name)]]
                          ELSE new_attrs
          /\ UNCHANGED final_products
          /\ IF ~HasAllVariables(info.required, pad_sect_xarrays)
             THEN /\ SS_AdvanceArea /\ err' = err
                  /\ last' = [it EXCEPT !.outcome = "skipped_variables",
                                        !.did = AdjDid]
             ELSE IF alg.err # "none"
             THEN /\ Abort(alg.err)
                  /\ last' = [given EXCEPT !.outcome = "aborted"]
                  /\ UNCHANGED area_idx
             ELSE
               /\ err' = err
               /\ \E covg \in CovgValues, fname_covg \in CovgValues :
                    LET gated == [given EXCEPT !.gate = TRUE, !.covg = covg,
                                            !.fname_covg = fname_covg,
                                            !.override = cfg.minimum_coverage,
                                            !.attr = info.minimum_coverage,
                                            !.minimum_coverage = minimum_coverage]
                    IN  IF InsufficientCoverage(covg, fname_covg, minimum_coverage)
                        THEN /\ SS_AdvanceArea
                             /\ last' = [gated EXCEPT !.outcome = "skipped_coverage"]
                        ELSE /\ pc' = "plot" /\ UNCHANGED area_idx
                             /\ last' = [gated EXCEPT !.outcome = "to_plot"]
  IN
  /\ procflow = "single_source" /\ pc = "product"
  /\ IF info.type = "sectored_xarray_dict_to_output_format"
     THEN \E rendered \in RenderChoices(names.out),
             written \in WriterChoices(names.md) :
            LET r == process_sectored_data_output(info.type, cfg.family,
                                                  SS_Formats, rendered, written)
                files == TagFiles(r.files, it)
            IN  IF r.err # "none"
                THEN /\ Abort(r.err)
                     /\ last' = [it EXCEPT !.outcome = "aborted",
                                           !.expected = names.out,
                                           !.rendered = rendered]
                     /\ UNCHANGED <<final_products, area_idx, area_def, new_attrs>>
                ELSE IF r.files # <<>>
                THEN /\ SS_AdvanceArea /\ err' = err
                     /\ final_products' = final_products \o files
                     /\ last' = [it EXCEPT !.outcome = "sectored_output",
                                           !.expected = names.out,
                                           !.rendered = rendered,
                                           !.files = files]
                     /\ UNCHANGED <<area_def, new_attrs>>
                ELSE AlgPath
     ELSE AlgPath
  /\ UNCHANGED <<procflow, cfg, st_idx, out_idx, prod_idx, uns_idx,
                 pad_sect_xarrays, sect_xarrays, pad_alg_xarrays, alg_xarrays,
                 alg_calls, retval, call>>

\* single_source.py:1501-1531: the render and the append to final_products
SS_Plot ==
  LET names == get_output_filenames(SS_Formats)
      expected == IF cfg.family \in OUTPUT_FAMILIES_WITH_NO_OUTFNAMES_ARG
                  THEN <<>> ELSE names.out
      \* single_source.py:1467-1473: alg_xarray.attrs[attrname] =
      \* new_attrs[attrname], for the dataset get_alg_xarray returned
      it == [SS_Here("SS_Plot") EXCEPT
               !.plotted = TRUE,
               !.filename_extra_fields = new_attrs.filename_extra_fields]
  IN
  /\ procflow = "single_source" /\ pc = "plot"
  /\ \E rendered \in RenderChoices(expected),
        written \in WriterChoices(names.md) :
       LET r == plot_data(cfg.family, FALSE, SS_Formats, rendered, written)
           files == TagFiles(r.files, it)
           plotted == [it EXCEPT !.expected = r.expected, !.rendered = rendered]
       IN  IF r.err # "none"
           THEN /\ Abort(r.err)
                /\ last' = [plotted EXCEPT !.outcome = "aborted"]
                /\ UNCHANGED <<final_products, area_idx>>
           ELSE /\ SS_AdvanceArea /\ err' = err
                /\ final_products' = final_products \o files
                /\ last' = [plotted EXCEPT !.outcome = "rendered",
                                           !.files = files]
  /\ UNCHANGED <<new_attrs, procflow, cfg, st_idx, out_idx, prod_idx, uns_idx, area_def,
                 pad_sect_xarrays, sect_xarrays, pad_alg_xarrays, alg_xarrays,
                 alg_calls, retval, call>>

\* single_source.py:1553-1592: the file list, the comparison, the return
SS_Finish ==
  /\ procflow = "single_source" /\ pc = "finish"
  /\ \E failed \in 0..1 :
       retval' = IF cfg.compare_path # <<>> THEN failed ELSE 0
  /\ pc' = "done"
  /\ \E output_file_list_fname \in BOOLEAN :
       last' = [LastNone EXCEPT
                  !.step = "SS_Finish", !.outcome = "returned",
                  !.file_list =
                     IF output_file_list_fname
                     THEN [given |-> TRUE, written |-> TRUE,
                           text |-> WriteNames(final_products)]
                     ELSE @]
  /\ UNCHANGED <<new_attrs, procflow, cfg, err, area_idx, st_idx, out_idx, prod_idx,
                 uns_idx, final_products, area_def, pad_sect_xarrays,
                 sect_xarrays, pad_alg_xarrays, alg_xarrays, alg_calls, call>>

InitSingleSource ==
  /\ procflow = "single_source"
  /\ cfg \in SingleSourceConfigs
  /\ pc = "start"
  /\ err = "none"
  /\ area_idx = 0 /\ st_idx = 0 /\ out_idx = 0 /\ prod_idx = 0 /\ uns_idx = 0
  /\ final_products = <<>>
  /\ area_def = [name |-> NoneV, sector_type |-> NoneV, adjustment_id |-> FALSE]
  /\ pad_sect_xarrays = <<>>
  /\ sect_xarrays = <<>>
  /\ pad_alg_xarrays = <<>>
  /\ alg_xarrays = <<>>
  /\ alg_calls = <<>>
  /\ last = LastNone
  /\ retval = NoneV
  /\ new_attrs = NoAttrs
  /\ call = NoCall

\* ------------------------------------------------------ the specification
Init == InitSingleSource \/ InitConfigBased

Next ==
  \/ SS_Start
  \/ SS_Sector
  \/ SS_Verify
  \/ SS_Product
  \/ SS_Plot
  \/ SS_Finish
  \/ CB_Start
  \/ CB_Unsectored
  \/ CB_Sector
  \/ CB_Verify
  \/ CB_Adjust
  \/ CB_Product
  \/ CB_Plot
  \/ CB_Compare

Spec == Init /\ [][Next]_vars

\* ------------------------------------------ properties of the procflows
\* the files of the final products, whatever the procflow
FinalFiles ==
  IF procflow = "config_based"
  THEN UNION {SeqToSet(final_products[i].files) : i \in 1..Len(final_products)}
  ELSE SeqToSet(final_products)

\* the file was made by the render the step record is about
SameRender(f, it) ==
  /\ f.area = it.area /\ f.sector_type = it.sector_type
  /\ f.output_type = it.output_type /\ f.product = it.product

IsPrefix(p, q) == Len(p) <= Len(q) /\ SubSeq(q, 1, Len(p)) = p

\* C1: in plot_data, for every family taking predeclared filenames, a
\* renderer list that differs from the pre-computed list ends the call with
\* the 'Did not produce expected products' error; neither orchestrator
\* catches it: the run is aborted and no file of that render is in the final
\* products
C1_RenderMismatchAborts ==
  (last.plotted /\ last.family \in PLOT_FAMILIES_CHECKED
     /\ last.rendered # last.expected)
  => /\ err = "ValueError_DidNotProduceExpectedProducts"
     /\ pc = "aborted"
     /\ last.files = <<>>
     /\ \A f \in FinalFiles : ~SameRender(f, last)

C1_Witness ==
  /\ last.plotted /\ last.family \in PLOT_FAMILIES_CHECKED
  /\ SeqToSet(last.rendered) = SeqToSet(last.expected)
  /\ last.rendered # last.expected
  /\ pc = "aborted"
  /\ FinalFiles # {}

\* C2: in both orchestrators the product is skipped for insufficient
\* coverage exactly when covg and fname_covg are both strictly below the
\* effective minimum coverage; otherwise (covg = minimum included) the
\* orchestrator goes on to render it
C2_CoverageGate ==
  last.gate
  => /\ (last.outcome = "skipped_coverage")
          <=> (last.covg < last.minimum_coverage
                 /\ last.fname_covg < last.minimum_coverage)
     /\ (last.outcome # "skipped_coverage"
          => last.outcome = "to_plot" /\ pc = "plot")

C2_Witness ==
  /\ last.gate
  /\ last.covg = last.minimum_coverage
  /\ last.fname_covg < last.minimum_coverage
  /\ last.outcome = "to_plot" /\ pc = "plot"

\* C3: in config_based, within one (area, sector type) iteration
\* get_alg_xarray is invoked at most once per product name, whatever the
\* output families and the area's sector type
C3_AtMostOneAlgCall ==
  procflow = "config_based"
  => \A p \in DOMAIN alg_calls : alg_calls[p] <= 1

\* C4: the ledger of config_based only grows: a key, once created, stays at
\* its place and is never re-initialised, the file list and the
\* database-write list of a key only get longer at their end, and a key is
\* created with empty lists (it holds just what the creating step appended)
C4_LedgerOnlyGrows ==
  [][procflow = "config_based"
     => /\ Len(final_products') >= Len(final_products)
        /\ \A i \in 1..Len(final_products) :
             /\ final_products'[i].cpath = final_products[i].cpath
             /\ IsPrefix(final_products[i].files, final_products'[i].files)
             /\ IsPrefix(final_products[i].database_writes,
                         final_products'[i].database_writes)
        /\ \A i \in (Len(final_products) + 1)..Len(final_products') :
             /\ final_products'[i].database_writes = <<>>
             /\ final_products'[i].files =
                  IF last'.cpath = final_products'[i].cpath
                  THEN last'.files ELSE <<>>
             /\ \A j \in 1..(i - 1) :
                  final_products'[j].cpath # final_products'[i].cpath]_vars

C4_Witness ==
  /\ procflow = "config_based"
  /\ \E i \in 1..Len(final_products) :
       \E a, b \in 1..Len(final_products[i].files) :
         /\ a < b
         /\ final_products[i].files[a].area # final_products[i].files[b].area
  /\ \E i \in 1..Len(final_products) : final_products[i].files = <<>>

\* the step met the check of the required variables
VariableCheckReached(d) ==
  \/ d.step = "CB_Product"
  \/ d.step = "SS_Product"
       /\ cfg.product_type # "sectored_xarray_dict_to_output_format"

\* C5: when the padded sectoring is empty, or a required variable has no
\* valid data after sectoring, the orchestrator raises nothing, renders and
\* records nothing for that iteration and goes on with the next one; the
\* final products, hence the return code computed from them, are what they
\* were
C5_MissingDataSkips ==
  [][LET d == last'
         missing ==
           \/ d.step \in {"CB_Sector", "SS_Sector"}
                /\ d.outcome \in {"sectored", "skipped_empty"} /\ Len(d.data) = 0
           \/ VariableCheckReached(d)
                /\ ~(SeqToSet(d.required) \subseteq AllVars(d.data))
     IN  missing
         => /\ d.outcome \in {"skipped_empty", "skipped_variables"}
            /\ err' = "none"
            /\ pc' \in {"sector", "product", "compare", "finish"}
            /\ final_products' = final_products
            /\ d.files = <<>> /\ ~d.plotted]_vars

C5_Witness ==
  /\ last.outcome = "skipped_variables"
  /\ err = "none"
  /\ pc = "product"
  /\ FinalFiles # {}

\* ------------------------------------------- properties of get_alg_xarray
IsAlgCall == call.fn = "get_alg_xarray"

\* the call-signature families the algorithm-first branch implements
AlgFirstFamilies ==
  {"xarray_to_numpy", "xarray_dict_area_def_to_numpy", "xarray_dict_to_xarray",
   "xarray_to_xarray", "list_numpy_to_numpy"}

\* the call-signature families the interpolation-first branch implements
InterpFirstFamilies ==
  {"xarray_to_numpy", "xarray_to_xarray", "single_channel",
   "channel_combination", "list_numpy_to_numpy", "rgb"}

\* the (algorithm family, product type) pairs get_alg_xarray implements
ImplementedPair(fam, pt) ==
  \/ pt \in ALG_FIRST_PRODUCT_TYPES /\ fam \in AlgFirstFamilies
  \/ pt = "interp"
  \/ pt \in {"interp_alg", "interp_alg_cmap"} /\ fam \in InterpFirstFamilies

\* the algorithm stage of an algorithm-first call ran and computed the product
AlgStageDone(a) ==
  /\ a.product_type \in ALG_FIRST_PRODUCT_TYPES
  /\ a.alg_family \in AlgFirstFamilies
  /\ AlgFirstStage(a).err = "none"
  /\ a.product_name \in AlgFirstStage(a).ds.vars

\* some required variable is in none of the candidate datasets
RequiredVariableMissing(a) ==
  \E v \in SeqToSet(AlgVariables(a)) :
    \A i \in 1..Len(CurrSectXarrays(a)) : v \notin CurrSectXarrays(a)[i].vars

\* C6: for product type alg or alg_cmap, get_alg_xarray returns the dataset
\* of the algorithm stage, not interpolated, whether or not the area carries
\* an adjustment_id
C6_AlgStageDatasetReturned ==
  (IsAlgCall /\ call.in.product_type \in {"alg", "alg_cmap"}
     /\ AlgStageDone(call.in))
  => /\ call.out.err = "none"
     /\ call.out.interps = <<>>
     /\ ~call.out.ds.interp
     /\ call.out.ds.vars = AlgFirstStage(call.in).ds.vars

\* C7: for product type alg_interp_cmap, get_alg_xarray returns the
\* interpolated algorithm result: it holds the product variable and no raw
\* input variable, for every algorithm family, and carries the adjustment_id
\* when the area has one
C7_InterpolatedProductOnly ==
  (IsAlgCall /\ call.in.product_type = "alg_interp_cmap"
     /\ call.in.has_interp /\ AlgStageDone(call.in))
  => /\ call.out.err = "none"
     /\ call.out.ds.interp
     /\ call.in.product_name \in call.out.ds.vars
     /\ call.out.ds.vars \cap VariableNames = {}
     /\ (call.in.adj => "adjustment_id" \in call.out.ds.fef)

\* C8: for a (algorithm family, product type) pair get_alg_xarray does not
\* implement, the call fails with the unsupported-configuration error and
\* returns no dataset, in both branches
C8_UnsupportedPairFails ==
  (IsAlgCall
     /\ ~ImplementedPair(AlgFamilyOf(call.in), call.in.product_type)
     /\ call.in.has_interp /\ CurrSectXarrays(call.in) # <<>>)
  => call.out.err = "TypeError_Unsupported"

\* C9: in the algorithm-first branch, when a required variable is in none of
\* the candidate datasets the call fails with the no-data error and the
\* algorithm plugin is not invoked, for every family of the branch
C9_MissingVariableNoData ==
  (IsAlgCall /\ call.in.product_type \in ALG_FIRST_PRODUCT_TYPES
     /\ call.in.alg_family \in AlgFirstFamilies
     /\ call.in.variable_names_given
     /\ RequiredVariableMissing(call.in))
  => /\ call.out.err = "ValueError_NoRequiredVariables"
     /\ call.out.calls = <<>>

\* C10: verify_area_def returns True when the checked name survives the
\* time filter and False otherwise, for every start/end pair, spans of 3
\* hours or more included
C10_VerifyReturnsBoolean ==
  call.fn = "verify_area_def"
  => /\ call.out.err = "none"
     /\ call.out.value = (call.in.check_name \in call.in.filtered)

\* ------------------------------------------- properties of the return code
ComparisonKeys ==
  {i \in 1..Len(final_products) :
     final_products[i].cpath # <<"no_comparison">>}

\* C11: when config_based returns, exactly one call to a comparison module
\* has been made for every ledger key other than "no_comparison", with the
\* key, its accumulated file list and its declared module, none for the
\* sentinel, and the return value is the sum of what those calls returned
\* (0 when the ledger holds no comparison key); comparison calls exist only
\* once the run has left the loops over the areas.
C11_ReturnIsSumOfComparisons ==
  procflow = "config_based" =>
    /\ last.compared # <<>> => pc = "done"
    /\ pc = "done" =>
         LET calls == last.compared
         IN  /\ Len(calls) = Cardinality(ComparisonKeys)
             /\ \A i \in ComparisonKeys :
                  \E k \in 1..Len(calls) :
                    /\ calls[k].cpath = final_products[i].cpath
                    /\ calls[k].files = final_products[i].files
                    /\ calls[k].compare_outputs_module
                         = final_products[i].compare_outputs_module
                    /\ \A j \in 1..Len(calls) :
                         calls[j].cpath = calls[k].cpath => j = k
             /\ \A k \in 1..Len(calls) : calls[k].cpath # <<"no_comparison">>
             /\ retval = SumSeq([k \in 1..Len(calls) |-> calls[k].curr_retval])
             /\ (ComparisonKeys = {} => retval = 0)

C11_Witness ==
  /\ procflow = "config_based" /\ pc = "done"
  /\ Cardinality(ComparisonKeys) >= 2
  /\ HasKey(final_products, <<"no_comparison">>)
  /\ \E j, k \in 1..Len(last.compared) :
       /\ j # k
       /\ last.compared[j].curr_retval > 0
       /\ last.compared[k].curr_retval > last.compared[j].curr_retval
       /\ last.compared[k].files # <<>>
  /\ retval >= 3

\* C12: the minimum coverage the gate of either procflow compares with is
\* the override returned by get_minimum_coverage when there is one,
\* otherwise the minimum_coverage attribute of the product dataset when it
\* has one, otherwise 10.
C12_EffectiveMinimumCoverage ==
  last.gate =>
    /\ last.override.has => last.minimum_coverage = last.override.val
    /\ (~last.override.has /\ last.attr.has)
         => last.minimum_coverage = last.attr.val
    /\ (~last.override.has /\ ~last.attr.has) => last.minimum_coverage = 10

C12_Witness ==
  /\ procflow = "single_source"
  /\ last.gate /\ last.override.has /\ last.attr.has
  /\ last.override.val # last.attr.val
  /\ last.minimum_coverage = last.override.val
  /\ last.covg < last.minimum_coverage /\ last.covg > last.attr.val
  /\ last.outcome = "skipped_coverage"

\* ------------- properties of update_output_dict_from_command_line_args
IsUpdateCall == call.fn = "update_output_dict_from_command_line_args"

\* the command-line value given for a field, as a set of at most one dict
GivenOnCommandLine(args, cmdline_fld_name) ==
  IF args.has /\ cmdline_fld_name \in DOMAIN args.val
     /\ args.val[cmdline_fld_name].has
  THEN {args.val[cmdline_fld_name].val} ELSE {}

\* what C13 says of one command-line field c and its plural field o
FieldUpdatedAsStated(spec, result, args, c, o) ==
  LET given == GivenOnCommandLine(args, c)
  IN  IF given = {}
      THEN /\ (o \in DOMAIN result) = (o \in DOMAIN spec)
           /\ o \in DOMAIN spec => result[o] = spec[o]
      ELSE \A v \in given :
             /\ o \in DOMAIN result
             /\ o \notin DOMAIN spec =>
                  /\ DOMAIN result[o] = {"all"}
                  /\ result[o]["all"] = v
             /\ (o \in DOMAIN spec /\ "all" \notin DOMAIN spec[o]) =>
                  /\ DOMAIN result[o] = DOMAIN spec[o] \cup {"all"}
                  /\ result[o]["all"] = v
                  /\ \A s \in DOMAIN spec[o] : result[o][s] = spec[o][s]
             /\ (o \in DOMAIN spec /\ "all" \in DOMAIN spec[o]) =>
                  /\ DOMAIN result[o] = DOMAIN spec[o]
                  /\ \A s \in DOMAIN spec[o] \ {"all"} :
                       result[o][s] = spec[o][s]
                  /\ DOMAIN result[o]["all"]
                       = DOMAIN spec[o]["all"] \cup DOMAIN v
                  /\ \A x \in DOMAIN v : result[o]["all"][x] = v[x]
                  /\ \A x \in DOMAIN spec[o]["all"] \ DOMAIN v :
                       result[o]["all"][x] = spec[o]["all"][x]

\* C13: the dict update_output_dict_from_command_line_args returns holds,
\* for each of the two command-line fields given, the plural field as
\* {all: value} when the spec lacks it, with "all" set to the value and the
\* other sub-keys kept when the spec's field has no "all", and with the
\* command-line sub-keys merged into the existing "all" otherwise; every
\* other field is as in the spec, and without command-line arguments the
\* spec itself is returned.
C13_CommandLineKwargsMerged ==
  IsUpdateCall =>
    LET spec == call.in.output_dict
        args == call.in.command_line_args
        result == call.out.final_output_dict
    IN  /\ ~args.has => result = spec
        /\ FieldUpdatedAsStated(spec, result, args, "filename_format_kwargs",
                                "filename_formats_kwargs")
        /\ FieldUpdatedAsStated(spec, result, args,
                                "metadata_filename_format_kwargs",
                                "metadata_filename_formats_kwargs")
        /\ DOMAIN result \subseteq
             DOMAIN spec \cup {"filename_formats_kwargs",
                               "metadata_filename_formats_kwargs"}
        /\ \A f \in DOMAIN spec \ {"filename_formats_kwargs",
                                   "metadata_filename_formats_kwargs"} :
             f \in DOMAIN result /\ result[f] = spec[f]

C13_Witness ==
  /\ IsUpdateCall
  /\ call.in.command_line_args.has
  /\ GivenOnCommandLine(call.in.command_line_args, "filename_format_kwargs")
       = {[k1 |-> "v2"]}
  /\ GivenOnCommandLine(call.in.command_line_args,
                        "metadata_filename_format_kwargs") = {[k2 |-> "v2"]}
  /\ "filename_formats_kwargs" \in DOMAIN call.in.output_dict
  /\ call.in.output_dict["filename_formats_kwargs"]
       = [all |-> [k1 |-> "v1", k2 |-> "v1"], png |-> [k1 |-> "v1"]]
  /\ "metadata_filename_formats_kwargs" \notin DOMAIN call.in.output_dict
  /\ call.out.final_output_dict["filename_formats_kwargs"]
       = [all |-> [k1 |-> "v2", k2 |-> "v1"], png |-> [k1 |-> "v1"]]
  /\ call.out.final_output_dict["metadata_filename_formats_kwargs"]
       = [all |-> [k2 |-> "v2"]]

\* ----------------------------------- properties of the rendering functions
IsRenderCall ==
  \/ call.fn = "plot_data"
  \/ /\ call.fn = "process_xarray_dict_to_output_format"
     /\ call.in.product_type
          \in PRODUCT_FAMILIES_FOR_XARRAY_DICT_TO_OUTPUT_FORMAT

\* C14: for an output plugin of family xrdict_area_product_to_outlist,
\* plot_data and process_xarray_dict_to_output_format end without error
\* whatever list the plugin returns, and return the files of that list.
C14_NoOutfnamesFamilyAccepted ==
  (IsRenderCall /\ call.in.family = "xrdict_area_product_to_outlist")
    => /\ call.out.err = "none"
       /\ SeqToSet(call.out.files) = SeqToSet(call.in.rendered)

\* the (metadata filename, product filename) pairs of the filename formats
\* that yield both
DerivedPairs(fmts) ==
  {<<fmts[i].mfn, fmts[i].ofn>> :
     i \in {j \in 1..Len(fmts) : fmts[j].ofn # NoneV /\ fmts[j].mfn # NoneV}}

\* C15: with a metadata writer that writes the file it is asked for,
\* output_all_metadata calls the writer exactly once per product file that
\* has a metadata filename, each time with that metadata filename and the
\* product filename it was derived from, and returns the product filenames
\* plus those metadata filenames.
C15_MetadataPairedWithItsProduct ==
  (call.fn = "output_all_metadata"
     /\ call.in.written = FaithfulWriter(call.in.metadata_fnames))
    => /\ call.out.err = "none"
       /\ SeqToSet(call.out.calls) = DerivedPairs(call.in.fmts)
       /\ Len(call.out.calls) = Cardinality(DerivedPairs(call.in.fmts))
       /\ SeqToSet(call.out.files)
            = ({call.in.fmts[i].ofn : i \in 1..Len(call.in.fmts)}
                 \cup {p[1] : p \in DerivedPairs(call.in.fmts)}) \ {NoneV}

\* the sector type (static, tc, reader_defined, ...) of the area definition
\* the step d worked on
StepSectorKind(d) ==
  IF procflow = "single_source" THEN cfg.sector_type
  ELSE LET st == CHOOSE st \in SeqToSet(Config.available_sectors) :
                   st.name = d.sector_type
       IN  st.sector_type

\* the step d belongs to the processing of an area definition
IsAreaStep(d) ==
  /\ d.area # NoneV
  /\ d.step \in {"SS_Sector", "SS_Verify", "SS_Product", "SS_Plot",
                 "CB_Sector", "CB_Verify", "CB_Adjust", "CB_Product", "CB_Plot"}

\* C16: no step of the processing of a self_register or reader_defined area
\* definition calls sector_xarrays, in either procflow and for every output
\* family, and the bundle such a step hands to get_alg_xarray is the bundle
\* the read returned.
C16_ReaderDefinedAreaNeverSectored ==
  (IsAreaStep(last) /\ NotSectored(StepSectorKind(last))) =>
    /\ "sector_xarrays" \notin last.did
    /\ "get_alg_xarray" \in last.did => last.alg_bundle = FullData

\* C17: the iteration of config_based over a sector type that no output
\* requests calls nothing: no reader, no sectoring, no area adjustment, no
\* algorithm, no render, whether or not sectored_read is configured.
C17_UnrequestedSectorTypeDoesNothing ==
  (procflow = "config_based" /\ IsAreaStep(last)
   /\ ~is_required_sector_type(Config.outputs, last.sector_type)) =>
    /\ last.did = {}
    /\ last.step = "CB_Sector" /\ last.outcome = "skipped_sector_type"

\* the outputs of the config whose requested sector type is flagged unsectored
UnsectoredOutputs ==
  {o \in SeqToSet(Config.outputs) :
     \E st \in SeqToSet(Config.available_sectors) :
       st.unsectored /\ st.name = o.requested_sector_type}

\* the files of the ledger that were rendered for output o and product p
LedgerFilesOf(o, p) ==
  {ij \in UNION {{<<i, j>> : j \in 1..Len(final_products[i].files)} :
                   i \in 1..Len(final_products)} :
     LET f == final_products[ij[1]].files[ij[2]]
     IN  f.output_type = o.name /\ f.product = p
         /\ f.name \in SeqToSet(get_output_filenames(o.fmts).out)}

\* the run has passed the time test of the whole config and has left the
\* unsectored stage without an error
PastUnsectoredStage ==
  /\ procflow = "config_based"
  /\ pc \in {"sector", "verify", "adjust", "product", "plot", "compare", "done"}
  /\ ~(last.step = "CB_Start" /\ last.outcome = "returned")

\* C18: in a run of config_based that passes the time test of the whole
\* config, every product of every output whose sector type is flagged
\* unsectored is rendered exactly once, by the unsectored stage and before
\* the first step of the loop over the areas, also when no area definition
\* is resolved; no step of the loop over the areas works on a sector type
\* flagged unsectored.
C18_UnsectoredOnceBeforeAreas ==
  /\ [](PastUnsectoredStage =>
          \A o \in UnsectoredOutputs : \A p \in SeqToSet(o.product_names) :
            /\ Cardinality(LedgerFilesOf(o, p))
                 = Len(get_output_filenames(o.fmts).out)
            /\ \A ij \in LedgerFilesOf(o, p) :
                 final_products[ij[1]].files[ij[2]].area = NoneV)
  /\ []((procflow = "config_based" /\ IsAreaStep(last)) =>
          \A st \in SeqToSet(Config.available_sectors) :
            st.name = last.sector_type => ~st.unsectored)
  /\ [][(procflow = "config_based" /\ last'.step = "CB_Unsectored") =>
          /\ last.step \in {"CB_Start", "CB_Unsectored"}
          /\ area_idx = 0
          /\ \A i \in 1..Len(final_products) :
               \A j \in 1..Len(final_products[i].files) :
                 final_products[i].files[j].area = NoneV]_vars

C18_Witness ==
  /\ PastUnsectoredStage /\ pc = "done"
  /\ Cardinality(UnsectoredOutputs) = 1
  /\ \A o \in UnsectoredOutputs :
       /\ Len(o.product_names) = 2
       /\ \A p \in SeqToSet(o.product_names) : LedgerFilesOf(o, p) # {}
  /\ \E i \in 1..Len(final_products) :
       \E j \in 1..Len(final_products[i].files) :
         final_products[i].files[j].area # NoneV

\* C18, no area definition resolved: the run ends with the unsectored products
C18_WitnessNoAreas ==
  /\ PastUnsectoredStage /\ pc = "done" /\ Areas = <<>>
  /\ \A o \in UnsectoredOutputs :
       \A p \in SeqToSet(o.product_names) : LedgerFilesOf(o, p) # {}
  /\ UnsectoredOutputs # {}

\* C19: config_based renders nothing for an output type whose
\* produce_current_time test is false, in the unsectored stage and in the
\* loop over the areas alike (the ledger holds no file of such an output
\* type), and when the test is false for the whole config the run returns 0
\* with an empty ledger.
C19_NothingOutsideProduceTimes ==
  procflow = "config_based" =>
    /\ "render" \in last.did
         => produce_current_time(Config.outputs, {last.output_type})
    /\ \A i \in 1..Len(final_products) :
         \A j \in 1..Len(final_products[i].files) :
           produce_current_time(Config.outputs,
                                {final_products[i].files[j].output_type})
    /\ (~produce_current_time(Config.outputs, {NoneV}) /\ pc # "start")
         => /\ pc = "done" /\ retval = 0 /\ final_products = <<>>
            /\ last.step = "CB_Start"

\* C20: a CoverageError or a reader's IndexError raised by the read or the
\* sectoring of an area definition never ends the run of either procflow:
\* the area or sector type is skipped and the run goes on.
C20_CoverageErrorsNeverFatal ==
  last.raised # "none" =>
    /\ pc # "aborted" /\ err = "none"
    /\ last.outcome = "skipped_no_coverage"

\* the processing family of the product the step d worked on
StepProductType(d) ==
  IF procflow = "single_source" THEN cfg.product_type
  ELSE IF d.product \in DOMAIN Config.products
       THEN Config.products[d.product].type ELSE NoneV

\* C21: for a product of family sectored_xarray_dict_to_output_format the
\* step of an area that calls process_sectored_data_output calls nothing
\* after it (no area-def adjuster, no get_alg_xarray, no coverage check, no
\* plot_data) and the orchestrator goes on with the next iteration, also
\* when process_sectored_data_output returned no files.
C21_SectoredOutputEndsIteration ==
  (last.step \in {"SS_Product", "CB_Product", "SS_Plot", "CB_Plot"}
   /\ StepProductType(last) = "sectored_xarray_dict_to_output_format") =>
    /\ last.step \in {"SS_Product", "CB_Product"}
    /\ last.did \subseteq {"render"}
    /\ ~last.gate
    /\ pc # "plot"

IsPadCall == call.fn = "pad_area_definition"

\* C22: pad_area_definition of an area that is not of sector type tc, with
\* force_pad False, returns the area definition it was given, unchanged
\* (same name, same extents), whatever the source name and the scale
\* factors.
C22_UnpaddedAreaReturnedAsIs ==
  (IsPadCall /\ call.in.area_def.sector_type # "tc" /\ ~call.in.force_pad) =>
    /\ call.out.is_input
    /\ call.out.area_def = call.in.area_def
    /\ call.out.generator_kwargs = <<>>

C22_Witness ==
  /\ IsPadCall /\ call.in.area_def.sector_type = "static" /\ ~call.in.force_pad
  /\ call.in.source_name = "amsu-b"
  /\ call.in.x_scale_factor = [num |-> 5, den |-> 2]
  /\ call.in.area_def.x_size = 3
  /\ call.out.area_def.x_size = 3

\* C23: pad_area_definition of a tc area, or with force_pad True, builds a
\* new area with num_samples = int(x_size * x_scale_factor) and num_lines =
\* int(y_size * y_scale_factor), except for the sources amsu-b and mhs, for
\* which num_samples = 5 * x_size and num_lines = y_size whatever the scale
\* factors; the centre is (clat, clon) of sector_info for a tc area and
\* (lat_0, lon_0) of the projection otherwise; pixel size, area_id and
\* description are those of the input.
C23_PaddedAreaShape ==
  (IsPadCall /\ (call.in.area_def.sector_type = "tc" \/ call.in.force_pad)) =>
    LET a == call.in.area_def
        full_swath == call.in.source_name \in {"amsu-b", "mhs"}
    IN  /\ ~call.out.is_input
        /\ Len(call.out.generator_kwargs) = 1
        /\ LET k == call.out.generator_kwargs[1]
           IN  /\ k.num_samples =
                    IF full_swath THEN 5 * a.x_size
                    ELSE (a.x_size * call.in.x_scale_factor.num)
                           \div call.in.x_scale_factor.den
               /\ k.num_lines =
                    IF full_swath THEN a.y_size
                    ELSE (a.y_size * call.in.y_scale_factor.num)
                           \div call.in.y_scale_factor.den
               /\ <<k.clat, k.clon>> =
                    IF a.sector_type = "tc"
                    THEN <<a.sector_info.clat, a.sector_info.clon>>
                    ELSE <<a.proj_dict.lat_0, a.proj_dict.lon_0>>
               /\ k.pixel_width = a.pixel_size_x
               /\ k.pixel_height = a.pixel_size_y
               /\ k.area_id = a.area_id
               /\ k.long_description = a.description

C23_Witness ==
  /\ IsPadCall /\ call.in.area_def.sector_type = "tc" /\ ~call.in.force_pad
  /\ call.in.source_name = "mhs"
  /\ call.in.area_def.x_size = 3
  /\ call.in.x_scale_factor = [num |-> 3, den |-> 2]
  /\ call.out.area_def.x_size = 15 /\ call.out.area_def.y_size = 2
  /\ call.out.area_def.proj_dict = [lat_0 |-> 10, lon_0 |-> 20]

\* the files the run produced: the list of single_source, the lists of the
\* ledger of config_based
ProducedFiles ==
  IF procflow = "single_source" THEN final_products
  ELSE LET RECURSIVE All(_)
           All(fp) == IF fp = <<>> THEN <<>> ELSE fp[1].files \o All(Tail(fp))
       IN  All(final_products)

\* the line of the file list for the produced file f
FileListLine(f) ==
  <<"$GEOIPS_OUTDIRS", f.area, f.output_type, f.product, f.name>>

\* the position of an area in the order the run works through the areas; 0
\* for what is made before the loop over the areas
AreaRank(area) ==
  LET areas == IF procflow = "single_source" THEN SS_Areas ELSE Areas
  IN  IF area = NoneV THEN 0 ELSE CHOOSE i \in 1..Len(areas) : areas[i] = area

\* C24: when an output file-list filename is given, the run that returns
\* has written the file: one line per produced file, each the path of the
\* file with the output root replaced by $GEOIPS_OUTDIRS and ended by a
\* newline, in the order the files were produced (the list of single_source
\* as it stands, the files of config_based area by area), so that the
\* number of newlines is the number of produced files, zero included.
C24_FileListOneLinePerFile ==
  (pc = "done" /\ last.file_list.given) =>
    LET text == last.file_list.text
        lines == SelectSeq(text, LAMBDA t : ~t.nl)
        produced == ProducedFiles
    IN  /\ last.file_list.written
        /\ Len(text) = 2 * Len(produced)
        /\ Len(lines) = Len(produced)
        /\ \A i \in 1..Len(text) : text[i].nl <=> (i % 2 = 0)
        /\ \A k \in 1..Len(produced) :
             Cardinality({i \in 1..Len(lines) :
                            lines[i].path = FileListLine(produced[k])})
               = Cardinality({j \in 1..Len(produced) :
                                produced[j] = produced[k]})
        /\ procflow = "single_source" =>
             \A i \in 1..Len(lines) : lines[i].path = FileListLine(produced[i])
        /\ \A i, j \in 1..Len(lines) :
             i < j => AreaRank(lines[i].path[2]) <= AreaRank(lines[j].path[2])

\* C25: remove_duplicates invokes the remover of the format exactly once
\* for each filename whose format defines one, and nothing for the others,
\* without error; removed_files is the concatenation, in order, of the
\* removed lists returned, and every input filename that is not in
\* removed_files is in saved_files.
C25_RemoveDuplicatesPerFormat ==
  call.fn = "remove_duplicates" =>
    LET fnames == call.in.fnames
        with == SelectSeq(fnames,
                          LAMBDA f : f.filename_format \in {"tc_fname"})
        idx == {i \in 1..Len(fnames) : fnames[i].filename_format = "tc_fname"}
        RECURSIVE Removed(_)
        Removed(i) ==
          IF i > Len(fnames) THEN <<>>
          ELSE (IF i \in idx THEN call.in.results[i].removed ELSE <<>>)
                 \o Removed(i + 1)
    IN  /\ call.out.err = "none"
        /\ call.out.calls = [i \in 1..Len(with) |-> with[i].fname]
        /\ call.out.removed_files = Removed(1)
        /\ \A i \in 1..Len(fnames) :
             fnames[i].fname \notin SeqToSet(call.out.removed_files)
               => fnames[i].fname \in SeqToSet(call.out.saved_files)


\* C26: for every product family get_alg_xarray implements, in the
\* algorithm-first and in the interpolation-first branch, the dataset a
\* completed call returns carries the product_name attribute and the
\* standard metadata
C26_ProductNameAndMetadataSet ==
  (IsAlgCall
     /\ ImplementedPair(AlgFamilyOf(call.in), call.in.product_type)
     /\ call.out.err = "none")
  => {"metadata", "product_name"} \subseteq call.out.ds.attrs

\* C27: with resector set no algorithm stage takes its input from the bundle
\* as given (the padded one) and every interpolation reads a dataset of the
\* re-sectored bundle; with resector unset sector_xarrays is not called and
\* no stage reads a re-sectored bundle
C27_StagesReadResectoredBundle ==
  IsAlgCall
  => /\ call.in.resector
          => /\ \A i \in 1..Len(call.out.calls) :
                  call.out.calls[i].origin # "given"
             /\ \A i \in 1..Len(call.out.interps) :
                  call.out.interps[i][2]
                    \in SeqToSet(BundleKeys(call.in.resect)) \cup {"alg_xarray"}
     /\ ~call.in.resector
          => /\ call.out.sector_calls = 0
             /\ \A i \in 1..Len(call.out.calls) :
                  call.out.calls[i].origin # "resectored"

\* C28: a call without the variable_names override behaves as the same call
\* given the looked-up list as override: it runs to completion for every
\* family, the looked-up list standing wherever variable presence is tested
C28_LookedUpVariablesUsed ==
  (IsAlgCall /\ ~call.in.variable_names_given)
  => call.out = get_alg_xarray([call.in EXCEPT
                                  !.variable_names_given = TRUE,
                                  !.variable_names = call.in.required])

\* C29: for product type interp no algorithm plugin is looked up or invoked
\* and the call returns the interpolated dataset, holding exactly the
\* required variables that were interpolated and no variable named after
\* the product
C29_InterpOnlyProduct ==
  (IsAlgCall /\ call.in.product_type = "interp"
     /\ call.in.has_interp /\ CurrSectXarrays(call.in) # <<>>)
  => /\ call.out.err = "none"
     /\ AlgFamilyOf(call.in) = NoneV
     /\ call.out.calls = <<>>
     /\ call.out.ds.interp
     /\ call.out.ds.vars
          = {call.out.interps[i][1] : i \in 1..Len(call.out.interps)}
     /\ call.out.ds.vars \subseteq SeqToSet(AlgVariables(call.in))
     /\ call.in.product_name \notin call.out.ds.vars

C29_Witness ==
  /\ IsAlgCall /\ call.in.product_type = "interp"
  /\ call.in.has_interp /\ call.in.resector
  /\ call.out.err = "none"
  /\ Cardinality(call.out.ds.vars) = 2


\* C30: when database writing is requested and one of the two credential
\* environment variables is unset, the run of single_source and of
\* config_based ends with the credentials error, no step of it has invoked a
\* reader plugin, the primary or the background one, and no output was
\* produced.
C30_CredentialsCheckedBeforeReading ==
  (CredentialsMissing(cfg) /\ pc # "start") =>
    /\ pc = "aborted" /\ err = "ValueError_Credentials"
    /\ last.did \cap {"reader", "bg_reader"} = {}
    /\ "render" \notin last.did
    /\ FinalFiles = {}


\* C31: whenever a plugin is invoked with a generic kwargs mapping
\* (output-format, metadata-output, filename-format, interpolator and
\* algorithm plugins alike) the keywords passed are the keys of the mapping
\* the plugin declares: every keyword passed is declared, and the undeclared
\* keys are dropped before the call.
C31_OnlyDeclaredKwargsPassed ==
  call.fn = "plugin_call"
  => /\ call.out.passed \subseteq call.in.declared
     /\ call.out.passed = call.in.requested_kwargs \cap call.in.declared
     /\ call.out.err = "none"


\* the place of a ledger file in the nested iteration of config_based: the
\* position of its area among the resolved areas, of its sector type among
\* the sector types of the area, of its output type in the config (0 for the
\* files of the area-definition adjuster, which precede the output loop) and
\* of its product in the product_names of the output type
IterationPlace(f) ==
  LET sts == SectorTypesOf(Config.available_sectors, f.area)
      outs == Config.outputs
      o == IF \E i \in 1..Len(outs) : outs[i].name = f.output_type
           THEN CHOOSE i \in 1..Len(outs) : outs[i].name = f.output_type
           ELSE 0
      names == IF o = 0 THEN <<>> ELSE outs[o].product_names
  IN  <<CHOOSE i \in 1..Len(Areas) : Areas[i] = f.area,
        CHOOSE i \in 1..Len(sts) : sts[i].name = f.sector_type,
        o,
        IF o = 0 THEN 0 ELSE CHOOSE i \in 1..Len(names) : names[i] = f.product>>

\* p is not after q in the lexicographic order
NotAfter(p, q) ==
  \/ p = q
  \/ \E k \in 1..Len(p) : p[k] < q[k] /\ \A j \in 1..(k - 1) : p[j] = q[j]

\* the ledger files made in the loop over the areas
AreaFiles == {f \in FinalFiles : f.area # NoneV}

\* C32: the files a step of config_based appends to the ledger are the
\* files of one (area, sector type, output type, product) place, and no
\* file already in the ledger belongs to a later place of the nested
\* iteration: areas in resolved order, then the sector types of the area,
\* then the output types in config order, then the product_names of the
\* output type.  The order of the appends is thus fixed by the inputs.
C32_LedgerInIterationOrder ==
  (procflow = "config_based" /\ last.area # NoneV /\ last.files # <<>>) =>
    /\ \A i \in 1..Len(last.files) :
         /\ last.files[i] \in AreaFiles
         /\ IterationPlace(last.files[i]) = IterationPlace(last.files[1])
    /\ \A g \in AreaFiles :
         NotAfter(IterationPlace(g), IterationPlace(last.files[1]))

C32_Witness ==
  /\ procflow = "config_based" /\ last.area = "a2" /\ last.files # <<>>
  /\ \E g, h \in AreaFiles :
       /\ g.area = "a1" /\ h.area = "a1"
       /\ g.sector_type = "st1" /\ h.sector_type = "st1"
       /\ g.output_type = "o1" /\ h.output_type = "o2"
  /\ \E g, h \in AreaFiles :
       /\ g.output_type = "o1" /\ h.output_type = "o1"
       /\ g.product = "p1" /\ h.product = "p2"
  /\ \E g \in AreaFiles : g.sector_type = "st2" /\ g.area = "a1"


\* C33: for an output plugin family that is handed the pre-computed
\* filenames, plot_data ends without error whenever the files the plugin
\* returns are, as a set, exactly those filenames, in whatever order the
\* plugin lists them.
C33_RenderOrderIrrelevant ==
  (call.fn = "plot_data" /\ call.in.family \in PLOT_FAMILIES_CHECKED
     /\ SeqToSet(call.in.rendered) = SeqToSet(call.out.expected))
  => call.out.err = "none"


\* C34: in the interpolation-first branch, a dataset is interpolated for a
\* variable that an earlier dataset of the bundle was already interpolated
\* for only if it holds all the required variables; otherwise the variable
\* is interpolated exactly once.  The same for the variables the product
\* metadata pins to dataset keys.
C34_NoPartialReinterpolation ==
  (IsAlgCall /\ call.in.product_type \notin ALG_FIRST_PRODUCT_TYPES) =>
    LET interps == call.out.interps
        curr == CurrSectXarrays(call.in)
    IN  \A i, j \in 1..Len(interps) :
          (i < j /\ interps[i][1] = interps[j][1]) =>
            SeqToSet(AlgVariables(call.in))
              \subseteq curr[DatasetNamed(curr, interps[j][2])].vars


\* C35: with database writing enabled and the credentials set, the ledger
\* of config_based holds one database-write confirmation for each product
\* file rendered (sectored, unsectored and plotted outputs; the files of the
\* area-definition adjuster are no product files), no database write ends
\* the run, and the run that ends returns its comparison result.
C35_DatabaseWritePerRenderedFile ==
  (procflow = "config_based" /\ cfg.product_db /\ ~CredentialsMissing(cfg)) =>
    /\ \A i \in 1..Len(final_products) :
         Len(final_products[i].database_writes)
           = Len(SelectSeq(final_products[i].files,
                           LAMBDA f : f.output_type # "archer"))
    /\ "write_to_database" \in last.did => pc # "aborted"
    /\ pc = "done" => retval # NoneV


\* C36: in single_source the adjustment_id in the filename_extra_fields of
\* the dataset rendered for an area is the adjustment_id of the area's own
\* adjusted area definition, and there is none when that area definition
\* has none, whatever areas the run processed before.
C36_AdjustmentIdOfOwnArea ==
  (procflow = "single_source" /\ last.step = "SS_Plot") =>
    last.filename_extra_fields.adjustment_id
      = IF area_def.adjustment_id THEN AdjustmentIdOf(area_def.name) ELSE NoneV


\* C37: in config_based the dataset rendered for an output type that does
\* not declare background_products carries no filename extra field of the
\* background dataset, in whatever order the output types that share the
\* memoised product in the (area, sector type) scope are processed.
C37_NoBackgroundFieldsWithoutRequest ==
  (procflow = "config_based" /\ last.step = "CB_Plot"
   /\ \E i \in 1..Len(Config.outputs) :
        /\ Config.outputs[i].name = last.output_type
        /\ ~Config.outputs[i].background_products)
  => last.fef \cap BackgroundFields = {}


\* C38: get_alg_xarray leaves the dataset bundle it is given unchanged, the
\* variables and the attributes of every dataset in it, for every product
\* type and algorithm family, with resector true and with resector false.
\* (With resector the stages work on the bundle sector_xarrays returned, so
\* a write lands in the given bundle when resector is false.)
C38_GivenBundleUnchanged ==
  IsAlgCall => ~(call.out.mutated # NoneV /\ ~call.in.resector)


\* C39: update_output_dict_from_command_line_args leaves the output_dict it
\* is given unchanged, the mappings nested in it included; the merged result
\* is a value of its own.
C39_OutputDictArgumentUnchanged ==
  call.fn = "update_output_dict_from_command_line_args"
    => call.out.output_dict = call.in.output_dict


\* C40: config_based runs the duplicate-file removal after rendering an
\* output only when the remove_duplicates flag of the output is enabled; for
\* an output with no such entry, or with the flag false, remove_duplicates
\* is not invoked (and so no file is removed).
C40_DuplicatesRemovedOnlyWhenEnabled ==
  (procflow = "config_based" /\ last.step = "CB_Plot"
   /\ cfg.remove_duplicates \in {"absent", "false"})
  => "remove_duplicates" \notin last.did

====
